---- MODULE Spec2Model ----
(***************************************************************************)
(* Access-control core of the start-page backend (backend/auth.py and the  *)
(* authentication, user and role endpoints of backend/app.py).             *)
(*                                                                         *)
(* Strings that the code takes apart (header values, usernames, role       *)
(* names, passwords, tokens) are sequences of atoms: an atom is a blank,   *)
(* a delimiter, or a run of other characters that the code never splits.   *)
(***************************************************************************)
EXTENDS Integers, Sequences, FiniteSets, TLC

VARIABLES
    users,      \* users.yaml, key 'users': the set of user records
    roles,      \* users.yaml, key 'roles': the set of role records
    session,    \* per client, the content of its Flask session cookie
    audit,      \* lines appended to audit.log while serving the current request
    pc,         \* "idle" | "handling" | "done": where the current request is
    req,        \* the request being served
    resp,       \* the response to it
    issued,     \* history: per client, whether a login opened its session and
                \* with which role list, the user record its token was last
                \* computed from and the endpoint that wrote the token
    inflight    \* requests served concurrently, step by step: per worker thread
                \* its position, its request, the document it has loaded and
                \* its response

vars == <<users, roles, session, audit, pc, req, resp, issued, inflight>>

-----------------------------------------------------------------------------
(* Bounds of the model *)

MaxRealIpLen == 2       \* atoms in an X-Real-IP value
MaxForwardedLen == 3    \* atoms in an X-Forwarded-For value
MaxRoleListLen == 2     \* role names a user holds
MaxRoleTable == 2       \* role records in the role table
MaxAuditLen == 3        \* lines of audit.log that are followed

-----------------------------------------------------------------------------
(* String helpers *)

BLANK == " "
NUL == "\\0"

SeqsUpTo(S, n) == UNION {[1..k -> S] : k \in 0..n}

RECURSIVE lstrip(_)
lstrip(s) == IF s # << >> /\ Head(s) = BLANK THEN lstrip(Tail(s)) ELSE s

RECURSIVE rstrip(_)
rstrip(s) ==
    IF s # << >> /\ s[Len(s)] = BLANK THEN rstrip(SubSeq(s, 1, Len(s) - 1)) ELSE s

\* str.strip()
strip(s) == rstrip(lstrip(s))

\* s.split(sep)[0]: what precedes the first separator
RECURSIVE split_first(_, _)
split_first(s, sep) ==
    IF s = << >> \/ Head(s) = sep THEN << >>
    ELSE <<Head(s)>> \o split_first(Tail(s), sep)

\* sep.join(parts)
RECURSIVE join(_, _)
join(sep, parts) ==
    IF parts = << >> THEN << >>
    ELSE IF Len(parts) = 1 THEN parts[1]
    ELSE parts[1] \o <<sep>> \o join(sep, Tail(parts))

Take(s, n) == SubSeq(s, 1, IF Len(s) < n THEN Len(s) ELSE n)

-----------------------------------------------------------------------------
(* Trust resolver: auth.py is_local_request *)

local_ips == {<<"127.0.0.1">>, <<"localhost">>, <<"::1">>}

\* request.headers.get(name, ''): an absent header reads as the empty string
header_get(request, name) == request.headers[name]

is_local_request_raw_first(request) ==
    IF request.remote_addr \in local_ips THEN TRUE
    ELSE LET real_ip == strip(header_get(request, "X-Real-IP"))
             forwarded_for == strip(header_get(request, "X-Forwarded-For"))
         IN IF real_ip # << >> THEN real_ip \in local_ips
            ELSE IF forwarded_for # << >>
                 THEN strip(split_first(forwarded_for, ",")) \in local_ips
                 ELSE FALSE

is_local_request(request) ==
    LET real_ip == strip(header_get(request, "X-Real-IP"))
        forwarded_for == strip(header_get(request, "X-Forwarded-For"))
    IN IF real_ip # << >> THEN real_ip \in local_ips
       ELSE IF forwarded_for # << >>
            THEN LET client_ip == strip(split_first(forwarded_for, ","))
                 IN client_ip \in local_ips
            ELSE request.remote_addr \in local_ips

\* flask_limiter.util.get_remote_address(): the address of the connection
get_remote_address(request) == request.remote_addr

\* app.py rate_limit_key: the quota bucket of a request, None for no accounting
rate_limit_key(request) ==
    IF is_local_request(request) THEN <<"None">>
    ELSE get_remote_address(request)

-----------------------------------------------------------------------------
(* Values *)

\* Python's None, where a str is expected
PyNone == <<"None">>

\* dict.get(key, default) on a JSON body or a session
dict_get(d, key, default) == IF key \in DOMAIN d THEN d[key] ELSE default

\* d[key] = value
dict_set(d, key, value) ==
    [k \in (DOMAIN d) \cup {key} |-> IF k = key THEN value ELSE d[k]]

\* the empty dict: a session after session.clear(), a request without body
EmptyDict == << >>

\* code point of the first character of an atom (Python compares str by code point)
ord(a) ==
    CASE a = BLANK -> 32
      [] a = "," -> 44
      [] a = ":" -> 58
      [] a = "Admins" -> 65
      [] a = "Guests" -> 71
      [] a = "Ops" -> 79
      [] OTHER -> 122

RECURSIVE str_less(_, _)
str_less(s, t) ==
    IF t = << >> THEN FALSE
    ELSE IF s = << >> THEN TRUE
    ELSE IF ord(Head(s)) # ord(Head(t)) THEN ord(Head(s)) < ord(Head(t))
    ELSE str_less(Tail(s), Tail(t))

RECURSIVE insert_sorted(_, _)
insert_sorted(x, l) ==
    IF l = << >> THEN <<x>>
    ELSE IF str_less(Head(l), x) \/ Head(l) = x
         THEN <<Head(l)>> \o insert_sorted(x, Tail(l))
         ELSE <<x>> \o l

sorted_as_given(l) == l

\* sorted(list of str)
RECURSIVE sorted(_)
sorted(l) == IF l = << >> THEN << >> ELSE insert_sorted(Head(l), sorted(Tail(l)))

\* x in list
in_list(x, l) == \E i \in 1..Len(l) : l[i] = x

-----------------------------------------------------------------------------
(* Password hasher.  app.py imports hash_password, verify_password,        *)
(* is_password_hashed and validate_password_strength from auth, but the    *)
(* auth.py at hand does not define them: they follow the design document   *)
(* (sections 4.4, 6 and 9) and the "bcrypt hash" comment of app.py.        *)

MinPasswordLen == 2

\* a bcrypt digest: a fixed prefix, the salt, the image of the plaintext
hash_password(password, salt) == <<"$2b$", salt>> \o password

is_password_hashed(value) == Len(value) >= 2 /\ value[1] = "$2b$"

verify_password(password, digest) ==
    is_password_hashed(digest) /\ SubSeq(digest, 3, Len(digest)) = password

validate_password_strength(password) == Len(password) >= MinPasswordLen

-----------------------------------------------------------------------------
(* Credential store: auth.py load_users / save_users *)

\* load_users(): the document, or an empty one when the file cannot be read
load_users ==
    IF req.io.load_ok THEN [users |-> users, roles |-> roles]
    ELSE [users |-> {}, roles |-> {}]

\* save_users(data): whether the write succeeds
save_users == req.io.save_ok

load_users_after_stale(saved) == load_users

\* load_users() once the same request has saved a document
load_users_after(saved) ==
    IF req.io.load_ok THEN saved ELSE [users |-> {}, roles |-> {}]

\* the first user of the document with this username, as the loops over
\* users_data['users'] find it (usernames are unique in the document)
find_user(users_data, username) == {u \in users_data.users : u.username = username}

the_user(users_data, username) == CHOOSE u \in find_user(users_data, username) : TRUE

-----------------------------------------------------------------------------
(* Identity resolver: auth.py get_current_user, get_user_categories *)

None == [none |-> TRUE]

\* history of a session that holds no token written by this service
Nobody == [username |-> << >>, password |-> << >>, email |-> << >>, roles |-> << >>]
\* no request is served step by step
NoThreads == << >>

NotIssued ==
    [opened |-> FALSE, login_roles |-> << >>, login_admin |-> FALSE,
     refresh |-> Nobody, by |-> "none"]

sess == session[req.client]

LocalPrincipal ==
    [username |-> <<"localhost">>, roles |-> << <<"Admins">> >>,
     is_local |-> TRUE, is_admin |-> TRUE]

\* the loop of get_current_user and admin_required over users_data['roles']
role_grants_admin_flag_only(role) == role.is_admin

role_grants_admin(role) == role.is_admin \/ role.name = <<"Admins">>

has_admin_role(users_data, user_roles) ==
    \E role \in users_data.roles :
        in_list(role.name, user_roles) /\ role_grants_admin(role)

current_user_session_first(s) ==
    IF "username" \in DOMAIN s /\ find_user(load_users, s.username) # {}
    THEN LET user == the_user(load_users, s.username)
         IN [username |-> user.username, roles |-> user.roles, email |-> user.email,
             is_local |-> FALSE, is_admin |-> has_admin_role(load_users, user.roles)]
    ELSE IF is_local_request(req) THEN LocalPrincipal
    ELSE None

\* get_current_user() as it reads the session dict s
current_user(s) ==
    IF is_local_request(req) THEN LocalPrincipal
    ELSE IF "username" \in DOMAIN s
    THEN LET users_data == load_users
         IN IF find_user(users_data, s.username) # {}
            THEN LET user == the_user(users_data, s.username)
                 IN [username |-> user.username,
                     roles |-> user.roles,
                     email |-> user.email,
                     is_local |-> FALSE,
                     is_admin |-> has_admin_role(users_data, user.roles)]
            ELSE None
    ELSE None

get_current_user == current_user(sess)

get_user_categories_first_role(user) ==
    IF user = None THEN {}
    ELSE LET held == {role \in load_users.roles : in_list(role.name, user.roles)}
         IN IF held = {} THEN {} ELSE (CHOOSE role \in held : TRUE).categories

get_user_categories(user) ==
    IF user = None THEN {}
    ELSE LET users_data == load_users
         IN UNION {role.categories :
                     role \in {r \in users_data.roles : in_list(r.name, user.roles)}}

-----------------------------------------------------------------------------
(* app.py helpers *)

\* sanitize_string(value, max_length): drop NULs, strip, truncate
RECURSIVE remove_nul(_)
remove_nul(s) ==
    IF s = << >> THEN << >>
    ELSE IF Head(s) = NUL THEN remove_nul(Tail(s))
    ELSE <<Head(s)>> \o remove_nul(Tail(s))

sanitize_string(value, max_length) == Take(strip(remove_nul(value)), max_length)

\* validate_email(email): empty, or local@domain.tld
validate_email(email) ==
    \/ email = << >>
    \/ /\ Len(email) = 5
       /\ email[2] = "@"
       /\ email[4] = "."
       /\ \A i \in {1, 3, 5} : email[i] \notin {BLANK, ",", ":", "@", "."}

\* one line of audit.log (the timestamp is left out: the model has no clock)
audit_entry(action, username, details) ==
    [action |-> action,
     username |-> IF username = PyNone \/ username = << >>
                  THEN <<"anonymous">> ELSE username,
     ip_address |-> req.remote_addr,
     details |-> details]

\* hashlib.sha256(s).hexdigest(), taken to be collision-free
sha256_hexdigest(s) == <<"sha256">> \o s

get_session_token_password_only(users_data, username) ==
    IF find_user(users_data, username) # {}
    THEN sha256_hexdigest(<<":">> \o the_user(users_data, username).password)
    ELSE PyNone

get_session_token(users_data, username) ==
    IF find_user(users_data, username) # {}
    THEN LET user == the_user(users_data, username)
             roles_str == join(",", sorted(user.roles))
             password_hash == user.password
         IN sha256_hexdigest(roles_str \o <<":">> \o password_hash)
    ELSE PyNone

check_session_token_strict(s, username) ==
    "session_token" \in DOMAIN s
    /\ get_session_token(load_users, username) = s.session_token

\* check_session_token(username) on the session dict s
check_session_token(s, username) ==
    IF "session_token" \notin DOMAIN s THEN TRUE
    ELSE get_session_token(load_users, username) = s.session_token

\* get_ip_whitelist(): config['security']['ip_whitelist'] as this request reads it
get_ip_whitelist == req.io.ip_whitelist

is_ip_whitelisted_trimmed ==
    IF is_local_request(req) THEN TRUE
    ELSE LET whitelist == get_ip_whitelist
         IN IF whitelist = {} THEN TRUE
            ELSE LET client_ip == IF strip(header_get(req, "X-Real-IP")) # << >>
                                  THEN strip(header_get(req, "X-Real-IP"))
                                  ELSE req.remote_addr
                 IN client_ip \in whitelist

is_ip_whitelisted ==
    IF is_local_request(req) THEN TRUE
    ELSE LET whitelist == get_ip_whitelist
         IN IF whitelist = {} THEN TRUE
            ELSE LET client_ip == IF header_get(req, "X-Real-IP") # << >>
                                  THEN header_get(req, "X-Real-IP")
                                  ELSE req.remote_addr
                 IN client_ip \in whitelist

authenticate_user_any_password(username, password) ==
    \E user \in load_users.users : user.username = username

authenticate_user(username, password) ==
    \E user \in load_users.users :
        user.username = username /\ user.password = password

-----------------------------------------------------------------------------
(* Gates: auth.py login_required, admin_required *)

Response(status, body, handler) ==
    [status |-> status, body |-> body, handler |-> handler]

Finished_rewriting(new_users, new_roles, new_session, new_issued, log, response) ==
    /\ users' = new_users
    /\ roles' = new_roles
    /\ session' = [session EXCEPT ![req.client] = new_session]
    /\ issued' = [issued EXCEPT ![req.client] = new_issued]
    /\ audit' = log
    /\ resp' = response
    /\ pc' = "done"
    /\ UNCHANGED <<req, inflight>>

\* what ends a request: the store as written, the client's session, the lines
\* appended to the audit log and the response
Finished(new_users, new_roles, new_session, new_issued, log, response) ==
    /\ users' = new_users
    /\ roles' = new_roles
    /\ session' = [session EXCEPT ![req.client] = new_session]
    /\ issued' = [issued EXCEPT ![req.client] = new_issued]
    /\ audit' = audit \o log
    /\ resp' = response
    /\ pc' = "done"
    /\ UNCHANGED <<req, inflight>>

\* the same, for a request that writes no session token
Done(new_users, new_roles, new_session, log, response) ==
    Finished(new_users, new_roles, new_session, issued[req.client], log, response)

\* session.clear()
Cleared(new_users, new_roles, log, response) ==
    Finished(new_users, new_roles, EmptyDict, NotIssued, log, response)

Reply_logged(response) ==
    Done(users, roles, sess,
         <<audit_entry("request", dict_get(sess, "username", PyNone), EmptyDict)>>,
         response)

\* a response that leaves store, session and audit log as they are
Reply(response) == Done(users, roles, sess, << >>, response)

login_required_passes_checks_store ==
    IF is_local_request(req) THEN TRUE
    ELSE get_current_user # None

login_required_passes_token_checked ==
    IF is_local_request(req) THEN TRUE
    ELSE "username" \in DOMAIN sess /\ check_session_token(sess, sess.username)

login_required_passes ==
    IF is_local_request(req) THEN TRUE
    ELSE "username" \in DOMAIN sess

login_required_reject ==
    Reply(Response(401, [error |-> "Authentication required",
                         login_required |-> TRUE], FALSE))

admin_required_passes_any_user ==
    IF is_local_request(req) THEN TRUE
    ELSE get_current_user # None

admin_required_passes_cached ==
    IF is_local_request(req) THEN TRUE
    ELSE get_current_user # None /\ issued[req.client].login_admin

admin_required_passes ==
    IF is_local_request(req) THEN TRUE
    ELSE LET user == get_current_user
         IN IF user = None THEN FALSE
            ELSE has_admin_role(load_users, user.roles)

admin_required_reject ==
    Reply(Response(403, [error |-> "Admin access required"], FALSE))

Error(status, message) == Reply(Response(status, [error |-> message], TRUE))

-----------------------------------------------------------------------------
(* Authentication endpoints: app.py *)

\* salts bcrypt may draw, in the order the model hands them out
SaltOrder == <<"s1", "s2", "s3", "s4">>
Salts == {SaltOrder[i] : i \in 1..Len(SaltOrder)}

\* s ends with suffix
ends_with(s, suffix) ==
    Len(suffix) <= Len(s)
    /\ SubSeq(s, Len(s) - Len(suffix) + 1, Len(s)) = suffix

\* a digest that is stored, or that a token some session still holds was
\* computed from
digest_in_use(digest) ==
    \/ \E user \in users : user.password = digest
    \/ \E c \in DOMAIN session :
          /\ "session_token" \in DOMAIN session[c]
          /\ ends_with(session[c].session_token, digest)

\* bcrypt.gensalt(): 128 random bits, so the digest computed now differs from
\* every digest computed before; the model hands out the first salt that gives
\* the password a digest not in use
gensalt(password) ==
    LET fresh == {i \in 1..Len(SaltOrder) :
                    ~digest_in_use(hash_password(password, SaltOrder[i]))}
    IN IF fresh = {} THEN Salts
       ELSE {SaltOrder[CHOOSE i \in fresh : \A j \in fresh : i <= j]}

Handling(ep) == pc = "handling" /\ req.ep = ep

\* auth_status finds the session of a resolved user invalid
auth_status_invalid ==
    /\ ~is_local_request(req)
    /\ get_current_user # None
    /\ LET username == dict_get(sess, "username", PyNone)
       IN username # PyNone /\ ~check_session_token(sess, username)

\* what auth_status answers
auth_status_response ==
    IF is_local_request(req)
    THEN Response(200, [authenticated |-> TRUE, user |-> LocalPrincipal], TRUE)
    ELSE LET user == get_current_user
         IN IF user # None
            THEN IF auth_status_invalid
                 THEN Response(200, [authenticated |-> FALSE, user |-> None,
                                     session_invalidated |-> TRUE], TRUE)
                 ELSE Response(200, [authenticated |-> TRUE, user |-> user], TRUE)
            ELSE Response(200, [authenticated |-> FALSE, user |-> None], TRUE)

\* GET /api/auth/status
auth_status ==
    /\ Handling("auth_status")
    /\ IF auth_status_invalid
       THEN Cleared(users, roles,
                <<audit_entry("session_invalidated", dict_get(sess, "username", PyNone),
                              [reason |-> "role_or_password_changed"])>>,
                auth_status_response)
       ELSE Reply(auth_status_response)

\* POST /api/auth/login
login ==
    /\ Handling("login")
    /\ IF ~is_ip_whitelisted
       THEN Done(users, roles, sess,
                 <<audit_entry("login_blocked_ip", PyNone, [ip |-> req.remote_addr])>>,
                 Response(403, [error |-> "Access denied"], TRUE))
       ELSE LET data == req.json
                username == sanitize_string(dict_get(data, "username", << >>), 100)
                password == dict_get(data, "password", << >>)
            IN IF username = << >> \/ password = << >>
               THEN Error(400, "Username and password required")
               ELSE IF authenticate_user(username, password)
               THEN LET s1 == dict_set(sess, "_permanent", TRUE)
                        s2 == dict_set(s1, "username", username)
                        s3 == dict_set(s2, "session_token",
                                       get_session_token(load_users, username))
                        user == current_user(s3)
                        record == IF find_user(load_users, username) # {}
                                  THEN the_user(load_users, username) ELSE Nobody
                    IN Finished(users, roles, s3,
                            [opened |-> TRUE, login_roles |-> record.roles,
                             login_admin |-> has_admin_role(load_users, record.roles),
                             refresh |-> record,
                             by |-> "login"],
                            <<audit_entry("login_success", username, EmptyDict)>>,
                            Response(200, [success |-> TRUE, user |-> user], TRUE))
               ELSE Done(users, roles, sess,
                         <<audit_entry("login_failed", username, EmptyDict)>>,
                         Response(401, [error |-> "Invalid username or password"], TRUE))

\* POST /api/auth/logout
logout ==
    /\ Handling("logout")
    /\ LET username == dict_get(sess, "username", <<"unknown">>)
       IN Cleared(users, roles,
               <<audit_entry("logout", username, EmptyDict)>>,
               Response(200, [success |-> TRUE], TRUE))

\* change_password's check of the current password: a hashed record by
\* verification, a plaintext record by equality
is_correct_password_any_digest(stored_password, current_password) ==
    IF is_password_hashed(stored_password) THEN TRUE
    ELSE stored_password = current_password

is_correct_password(stored_password, current_password) ==
    IF is_password_hashed(stored_password)
    THEN verify_password(current_password, stored_password)
    ELSE stored_password = current_password

\* POST /api/auth/change-password, behind login_required
change_password ==
    /\ Handling("change_password")
    /\ IF ~login_required_passes THEN login_required_reject
       ELSE IF is_local_request(req)
       THEN Error(400, "Cannot change password for localhost access")
       ELSE LET data == req.json
                current_password == dict_get(data, "current_password", << >>)
                new_password == dict_get(data, "new_password", << >>)
            IN IF current_password = << >> \/ new_password = << >>
               THEN Error(400, "Current and new password required")
               ELSE IF ~validate_password_strength(new_password)
               THEN Error(400, "Password too weak")
               ELSE LET username == dict_get(sess, "username", PyNone)
                        users_data == load_users
                    IN IF find_user(users_data, username) = {}
                       THEN Error(404, "User not found")
                       ELSE LET user == the_user(users_data, username)
                                stored_password == user.password
                                is_correct ==
                                    is_correct_password(stored_password, current_password)
                            IN IF ~is_correct
                               THEN Done(users, roles, sess,
                                         <<audit_entry("password_change_failed", username,
                                              [reason |-> "incorrect_current_password"])>>,
                                         Response(401,
                                              [error |-> "Current password is incorrect"],
                                              TRUE))
                               ELSE \E salt \in gensalt(new_password) :
                                    LET changed ==
                                            [user EXCEPT !.password =
                                                 hash_password(new_password, salt)]
                                        new_users ==
                                            (users_data.users \ {user}) \cup {changed}
                                        saved == [users |-> new_users,
                                                  roles |-> users_data.roles]
                                        \* get_session_token reloads the document
                                        reloaded == load_users_after(saved)
                                    IN IF save_users
                                       THEN Finished(new_users, users_data.roles,
                                                 dict_set(sess, "session_token",
                                                     get_session_token(reloaded, username)),
                                                 [issued[req.client] EXCEPT
                                                     !.refresh = changed,
                                                     !.by = "change_password"],
                                                 <<audit_entry("password_changed", username,
                                                               EmptyDict)>>,
                                                 Response(200,
                                                     [success |-> TRUE,
                                                      message |->
                                                        "Password changed successfully"],
                                                     TRUE))
                                       ELSE Error(500, "Failed to save password")

\* GET /api/auth/profile, behind login_required
get_profile ==
    /\ Handling("get_profile")
    /\ IF ~login_required_passes THEN login_required_reject
       ELSE LET user == get_current_user
            IN IF user # None
               THEN Reply(Response(200,
                        [username |-> user.username,
                         email |-> dict_get(user, "email", << >>),
                         first_name |-> << >>,
                         last_name |-> << >>,
                         roles |-> user.roles,
                         is_local |-> user.is_local], TRUE))
               ELSE Error(401, "Not authenticated")

profile_fields_and_roles(u, first_name, last_name, email) ==
    [u EXCEPT !.roles = << >>]

\* the assignments of update_profile to the user's record: a field is set when
\* the submitted value is not empty
profile_fields(u, first_name, last_name, email) ==
    LET u1 == IF first_name # << >> THEN dict_set(u, "first_name", first_name) ELSE u
        u2 == IF last_name # << >> THEN dict_set(u1, "last_name", last_name) ELSE u1
    IN IF email # << >> THEN dict_set(u2, "email", email) ELSE u2

\* POST /api/auth/profile, behind login_required
update_profile ==
    /\ Handling("update_profile")
    /\ IF ~login_required_passes THEN login_required_reject
       ELSE LET user == get_current_user
            IN IF user = None \/ user.is_local
               THEN Error(403, "Cannot update local user profile")
               ELSE LET data == req.json
                        first_name == strip(dict_get(data, "first_name", << >>))
                        last_name == strip(dict_get(data, "last_name", << >>))
                        email == strip(dict_get(data, "email", << >>))
                        users_data == load_users
                    IN IF find_user(users_data, user.username) = {}
                       THEN Error(404, "User not found")
                       ELSE LET u == the_user(users_data, user.username)
                                changed == profile_fields(u, first_name, last_name, email)
                            IN IF save_users
                               THEN Done((users_data.users \ {u}) \cup {changed},
                                         users_data.roles, sess,
                                         <<audit_entry("profile_update", user.username,
                                               [first_name |-> first_name,
                                                last_name |-> last_name,
                                                email |-> email])>>,
                                         Response(200,
                                             [message |-> "Profile updated successfully"],
                                             TRUE))
                               ELSE Error(500, "Failed to save profile")

-----------------------------------------------------------------------------
(* Read endpoints of the dashboard configuration: app.py, behind            *)
(* login_required.  The configuration document is config.yaml as the       *)
(* request reads it.                                                       *)

\* load_config(): the document, or None when the file cannot be read
load_config == req.io.config

\* "not config": None or an empty document
not_config(config) == config = None \/ DOMAIN config = {}

\* [s for s in config['services'] if s.get('category') in user_categories]
visible_services_admin_all(services, user) ==
    LET user_categories == get_user_categories(user)
        keep(s) == "category" \in DOMAIN s /\ s.category \in user_categories
    IN IF user # None /\ user.is_admin THEN services ELSE SelectSeq(services, keep)

visible_services(services, user) ==
    LET user_categories == get_user_categories(user)
        keep(s) == "category" \in DOMAIN s /\ s.category \in user_categories
    IN SelectSeq(services, keep)

\* [c for c in config['categories'] if c['name'] in user_categories]
visible_categories(categories, user) ==
    LET user_categories == get_user_categories(user)
        keep(c) == c.name \in user_categories
    IN SelectSeq(categories, keep)

\* GET /api/config
get_config ==
    /\ Handling("get_config")
    /\ IF ~login_required_passes THEN login_required_reject
       ELSE LET config == load_config
            IN IF not_config(config)
               THEN Error(500, "Failed to load configuration")
               ELSE LET user == get_current_user
                        filtered ==
                            [k \in DOMAIN config |->
                                IF k = "services"
                                THEN visible_services(config[k], user)
                                ELSE IF k = "categories"
                                THEN visible_categories(config[k], user)
                                ELSE config[k]]
                    IN Reply(Response(200, filtered, TRUE))

\* GET /api/services
get_services ==
    /\ Handling("get_services")
    /\ IF ~login_required_passes THEN login_required_reject
       ELSE LET config == load_config
            IN IF not_config(config) \/ "services" \notin DOMAIN config
               THEN Error(500, "Failed to load services")
               ELSE Reply(Response(200,
                        visible_services(config.services, get_current_user), TRUE))

\* GET /api/categories
get_categories ==
    /\ Handling("get_categories")
    /\ IF ~login_required_passes THEN login_required_reject
       ELSE LET config == load_config
            IN IF not_config(config) \/ "categories" \notin DOMAIN config
               THEN Reply(Response(200, << >>, TRUE))
               ELSE Reply(Response(200,
                        visible_categories(config.categories, get_current_user), TRUE))

\* save_config(config): whether config.yaml can be written; the file itself is
\* an input of the requests that read it
save_config == req.io.config_save_ok

\* the auto-grant of update_config: every administrative role gets the names of
\* the categories of the new configuration
grant_categories(role, new_category_names) ==
    IF role.is_admin \/ role.name = <<"Admins">>
    THEN [role EXCEPT !.categories = @ \cup new_category_names]
    ELSE role

\* POST /api/config, behind admin_required
update_config ==
    /\ Handling("update_config")
    /\ IF ~admin_required_passes THEN admin_required_reject
       ELSE LET new_config == req.json
                users_data == load_users
                new_category_names == {cat.name : cat \in new_config.categories}
                granted == {grant_categories(role, new_category_names) :
                               role \in users_data.roles}
                \* the outcome of save_users(users_data) is not looked at
                written == "categories" \in DOMAIN new_config /\ save_users
                response == IF save_config
                            THEN Response(200, [success |-> TRUE,
                                                message |-> "Configuration updated"], TRUE)
                            ELSE Response(500, [error |-> "Failed to save configuration"],
                                          TRUE)
            IN IF written
               THEN Done(users_data.users, granted, sess, << >>, response)
               ELSE Reply(response)

-----------------------------------------------------------------------------
(* User and role management endpoints: app.py, behind admin_required *)

\* POST /api/users
create_user ==
    /\ Handling("create_user")
    /\ IF ~admin_required_passes THEN admin_required_reject
       ELSE LET data == req.json
                username == sanitize_string(dict_get(data, "username", << >>), 100)
                password == dict_get(data, "password", << >>)
                email == sanitize_string(dict_get(data, "email", << >>), 200)
                new_roles == dict_get(data, "roles", << >>)
            IN IF username = << >> \/ password = << >>
               THEN Error(400, "Username and password required")
               ELSE IF ~validate_password_strength(password)
               THEN Error(400, "Password too weak")
               ELSE IF email # << >> /\ ~validate_email(email)
               THEN Error(400, "Invalid email address")
               ELSE LET users_data == load_users
                    IN IF find_user(users_data, username) # {}
                       THEN Error(400, "User already exists")
                       ELSE \E salt \in gensalt(password) :
                            LET new_user == [username |-> username,
                                             password |-> hash_password(password, salt),
                                             email |-> email,
                                             roles |-> new_roles]
                            IN IF save_users
                               THEN Done(users_data.users \cup {new_user},
                                         users_data.roles, sess,
                                         <<audit_entry("user_created",
                                               dict_get(sess, "username", PyNone),
                                               [new_user |-> username])>>,
                                         Response(200, [success |-> TRUE,
                                                        message |-> "User created"], TRUE))
                               ELSE Error(500, "Failed to save user")

\* the record update_user leaves in the document: the fields the body names
\* are assigned in place, the others stay
updated_user(user, data, salt) ==
    [user EXCEPT
        !.password = IF "password" \in DOMAIN data /\ data.password # << >>
                     THEN hash_password(data.password, salt) ELSE @,
        !.email = IF "email" \in DOMAIN data
                  THEN sanitize_string(data.email, 200) ELSE @,
        !.roles = IF "roles" \in DOMAIN data THEN data.roles ELSE @]

\* PUT /api/users/<username>
update_user ==
    /\ Handling("update_user")
    /\ IF ~admin_required_passes THEN admin_required_reject
       ELSE LET data == req.json
                username == req.path
                users_data == load_users
            IN IF find_user(users_data, username) = {}
               THEN Error(404, "User not found")
               ELSE LET user == the_user(users_data, username)
                        sets_password == "password" \in DOMAIN data
                                         /\ data.password # << >>
                        sets_email == "email" \in DOMAIN data
                        sets_roles == "roles" \in DOMAIN data
                        email == IF sets_email THEN sanitize_string(data.email, 200)
                                 ELSE user.email
                        changes == (IF sets_password THEN <<"password">> ELSE << >>)
                                   \o (IF sets_email THEN <<"email">> ELSE << >>)
                                   \o (IF sets_roles THEN <<"roles">> ELSE << >>)
                    IN IF sets_password /\ ~validate_password_strength(data.password)
                       THEN Error(400, "Password too weak")
                       ELSE IF sets_email /\ email # << >> /\ ~validate_email(email)
                       THEN Error(400, "Invalid email address")
                       ELSE \E salt \in gensalt(dict_get(data, "password", << >>)) :
                            LET changed == updated_user(user, data, salt)
                            IN IF save_users
                               THEN Done((users_data.users \ {user}) \cup {changed},
                                         users_data.roles, sess,
                                         <<audit_entry("user_updated",
                                               dict_get(sess, "username", PyNone),
                                               [updated_user |-> username,
                                                changes |-> changes])>>,
                                         Response(200, [success |-> TRUE,
                                                        message |-> "User updated"], TRUE))
                               ELSE Error(500, "Failed to save user")

\* DELETE /api/users/<username>
delete_user ==
    /\ Handling("delete_user")
    /\ IF ~admin_required_passes THEN admin_required_reject
       ELSE LET username == req.path
                users_data == load_users
                kept == {u \in users_data.users : u.username # username}
            IN IF save_users
               THEN Done(kept, users_data.roles, sess,
                         <<audit_entry("user_deleted", dict_get(sess, "username", PyNone),
                                       [deleted_user |-> username])>>,
                         Response(200, [success |-> TRUE,
                                        message |-> "User deleted"], TRUE))
               ELSE Error(500, "Failed to delete user")

\* GET /api/roles
get_roles ==
    /\ Handling("get_roles")
    /\ IF ~admin_required_passes THEN admin_required_reject
       ELSE Reply(Response(200, [roles |-> load_users.roles], TRUE))

\* POST /api/roles
create_role ==
    /\ Handling("create_role")
    /\ IF ~admin_required_passes THEN admin_required_reject
       ELSE LET data == req.json
                name == dict_get(data, "name", << >>)
                users_data == load_users
            IN IF name = << >>
               THEN Error(400, "Role name required")
               ELSE IF \E role \in users_data.roles : role.name = name
               THEN Error(400, "Role already exists")
               ELSE LET new_role ==
                            [name |-> name,
                             description |-> dict_get(data, "description", << >>),
                             categories |-> dict_get(data, "categories", {}),
                             is_admin |-> dict_get(data, "is_admin", FALSE)]
                    IN IF save_users
                       THEN Done(users_data.users, users_data.roles \cup {new_role},
                                 sess, << >>,
                                 Response(200, [success |-> TRUE,
                                                message |-> "Role created"], TRUE))
                       ELSE Error(500, "Failed to save role")

\* PUT /api/roles
update_roles ==
    /\ Handling("update_roles")
    /\ IF ~admin_required_passes THEN admin_required_reject
       ELSE LET data == req.json
                users_data == load_users
            IN IF save_users
               THEN Done(users_data.users, dict_get(data, "roles", {}), sess,
                         <<audit_entry("roles_updated", dict_get(sess, "username", PyNone),
                                       EmptyDict)>>,
                         Response(200, [success |-> TRUE,
                                        message |-> "Roles updated"], TRUE))
               ELSE Error(500, "Failed to save roles")

role_in_use_never(users_data, name) == FALSE

\* delete_role's loop over the users: some user holds the role name
role_in_use(users_data, name) ==
    \E user \in users_data.users : in_list(name, user.roles)

\* DELETE /api/roles/<name>
delete_role ==
    /\ Handling("delete_role")
    /\ IF ~admin_required_passes THEN admin_required_reject
       ELSE LET name == req.path
                users_data == load_users
            IN IF role_in_use(users_data, name)
               THEN Error(400, "Cannot delete role assigned to users")
               ELSE IF save_users
               THEN Done(users_data.users,
                         {r \in users_data.roles : r.name # name}, sess,
                         <<audit_entry("role_deleted", dict_get(sess, "username", PyNone),
                                       [deleted_role |-> name])>>,
                         Response(200, [success |-> TRUE,
                                        message |-> "Role deleted"], TRUE))
               ELSE Error(500, "Failed to delete role")

-----------------------------------------------------------------------------
(* Requests *)

HeaderNames == {"X-Real-IP", "X-Forwarded-For"}

Headers(real_ip, forwarded_for) ==
    [h \in HeaderNames |-> IF h = "X-Real-IP" THEN real_ip ELSE forwarded_for]

\* a direct connection from the host itself
LocalDirect == [headers |-> Headers(<< >>, << >>), remote_addr |-> <<"127.0.0.1">>]

\* a remote client behind the reverse proxy that runs on the same host
ViaProxy ==
    [headers |-> Headers(<<"203.0.113.5">>, <<"203.0.113.5">>),
     remote_addr |-> <<"127.0.0.1">>]

Request(ep, client, origin, io, path, json) ==
    [ep |-> ep, client |-> client, headers |-> origin.headers,
     remote_addr |-> origin.remote_addr, io |-> io, path |-> path, json |-> json]

IoOk == [load_ok |-> TRUE, save_ok |-> TRUE, ip_whitelist |-> {}]
IoNoLoad == [load_ok |-> FALSE, save_ok |-> TRUE, ip_whitelist |-> {}]
IoNoSave == [load_ok |-> TRUE, save_ok |-> FALSE, ip_whitelist |-> {}]
IoWhitelist == [load_ok |-> TRUE, save_ok |-> TRUE, ip_whitelist |-> {<<"10.0.0.1">>}]

NoRequest == [ep |-> "none"]
NoResponse == [status |-> 0]

alice == <<"alice">>
bob == <<"bob">>
Admins == <<"Admins">>
Ops == <<"Ops">>
Guests == <<"Guests">>

P1 == <<"Secret", "123!">>
P2 == <<"Hunter", "2!!">>
Weak == <<"abc">>

RoleAdmins ==
    [name |-> Admins, description |-> << >>,
     categories |-> {"infra", "secrets"}, is_admin |-> FALSE]
RoleOps ==
    [name |-> Ops, description |-> << >>, categories |-> {"infra"}, is_admin |-> FALSE]
RoleOpsAdmin ==
    [name |-> Ops, description |-> << >>, categories |-> {"infra"}, is_admin |-> TRUE]

role_json(role) ==
    [name |-> role.name, categories |-> role.categories, is_admin |-> role.is_admin]

Clients == {"c1"}
Origins == {LocalDirect, ViaProxy}

Requests ==
    {Request("auth_status", c, o, io, << >>, EmptyDict) :
        c \in Clients, o \in Origins, io \in {IoOk, IoNoLoad}}
    \cup
    {Request("login", c, o, io, << >>, [username |-> u, password |-> p]) :
        c \in Clients, o \in Origins, io \in {IoOk, IoNoLoad, IoWhitelist},
        u \in {alice, bob}, p \in {P1, P2, hash_password(P2, "s1")}}
    \cup
    {Request("logout", c, o, IoOk, << >>, EmptyDict) : c \in Clients, o \in Origins}
    \cup
    {Request("change_password", c, o, io, << >>,
             [current_password |-> cur, new_password |-> new]) :
        c \in Clients, o \in Origins, io \in {IoOk, IoNoSave},
        cur \in {P1, P2}, new \in {P1, P2, Weak}}
    \cup
    {Request("get_profile", c, o, io, << >>, EmptyDict) :
        c \in Clients, o \in Origins, io \in {IoOk, IoNoLoad}}
    \cup
    {Request("create_user", c, o, io, << >>,
             [username |-> alice, password |-> p, roles |-> r]) :
        c \in Clients, o \in Origins, io \in {IoOk, IoNoLoad, IoNoSave},
        p \in {P1, Weak}, r \in {<<Ops>>, <<Admins>>}}
    \cup
    {Request("update_user", c, o, io, alice, j) :
        c \in Clients, o \in Origins, io \in {IoOk, IoNoLoad, IoNoSave},
        j \in {[password |-> P2], [roles |-> << >>],
               [roles |-> <<Admins>>], [roles |-> <<Ops>>]}}
    \cup
    {Request("delete_user", c, o, io, alice, EmptyDict) :
        c \in Clients, o \in Origins, io \in {IoOk, IoNoLoad, IoNoSave}}
    \cup
    {Request("get_roles", c, o, io, << >>, EmptyDict) :
        c \in Clients, o \in Origins, io \in {IoOk, IoNoLoad}}
    \cup
    {Request("create_role", c, o, io, << >>, role_json(r)) :
        c \in Clients, o \in Origins, io \in {IoOk, IoNoLoad, IoNoSave},
        r \in {RoleAdmins, RoleOps, RoleOpsAdmin}}
    \cup
    {Request("update_roles", c, o, io, << >>, [roles |-> t]) :
        c \in Clients, o \in Origins, io \in {IoOk, IoNoLoad, IoNoSave},
        t \in {{}, {RoleOps}}}
    \cup
    {Request("delete_role", c, o, io, n, EmptyDict) :
        c \in Clients, o \in Origins, io \in {IoOk, IoNoLoad, IoNoSave},
        n \in {Admins, Ops}}

\* the requests served while users.yaml can be read and written
SoundRequests == {r \in Requests : r.io.load_ok /\ r.io.save_ok}

\* a request arrives
Receive ==
    /\ pc = "idle"
    /\ \E r \in Requests : req' = r
    /\ pc' = "handling"
    /\ UNCHANGED <<users, roles, session, audit, resp, issued, inflight>>

\* the response is sent; the lines written for the request stay in the file and
\* are no longer followed
Finish ==
    /\ pc = "done"
    /\ pc' = "idle"
    /\ req' = NoRequest
    /\ resp' = NoResponse
    /\ audit' = << >>
    /\ UNCHANGED <<users, roles, session, issued, inflight>>

-----------------------------------------------------------------------------
(* The service *)

\* the document of the design's scenario: alice holds Ops, her password is hashed
DocScenario ==
    [users |-> {[username |-> alice, password |-> hash_password(P1, "s0"),
                 email |-> << >>, roles |-> <<Ops>>]},
     roles |-> {RoleOps}]

\* a document from before hashing: alice is an administrator with a plaintext password
DocLegacy ==
    [users |-> {[username |-> alice, password |-> P1,
                 email |-> << >>, roles |-> <<Admins>>]},
     roles |-> {RoleAdmins}]

Init ==
    /\ \E doc \in {DocScenario, DocLegacy} : users = doc.users /\ roles = doc.roles
    /\ session = [c \in Clients |-> EmptyDict]
    /\ audit = << >>
    /\ pc = "idle"
    /\ req = NoRequest
    /\ resp = NoResponse
    /\ issued = [c \in Clients |-> NotIssued]
    /\ inflight = NoThreads

Next ==
    \/ Receive
    \/ auth_status
    \/ login
    \/ logout
    \/ change_password
    \/ get_profile
    \/ create_user
    \/ update_user
    \/ delete_user
    \/ get_roles
    \/ create_role
    \/ update_roles
    \/ delete_role
    \/ Finish

Spec == Init /\ [][Next]_vars

\* the service while users.yaml can be read and written
ReceiveSound ==
    /\ pc = "idle"
    /\ \E r \in SoundRequests : req' = r
    /\ pc' = "handling"
    /\ UNCHANGED <<users, roles, session, audit, resp, issued, inflight>>

NextSound ==
    \/ ReceiveSound
    \/ auth_status
    \/ login
    \/ logout
    \/ change_password
    \/ get_profile
    \/ create_user
    \/ update_user
    \/ delete_user
    \/ get_roles
    \/ create_role
    \/ update_roles
    \/ delete_role
    \/ Finish

SpecSound == Init /\ [][NextSound]_vars

-----------------------------------------------------------------------------
(* The trust resolver on its own: every header pair and raw address within *)
(* the bounds, classified once.                                            *)

HeaderAtoms == {BLANK, ",", "127.0.0.1", "::1", "203.0.113.5"}
RemoteAddrs == {<<"127.0.0.1">>, <<"::1">>, <<"localhost">>, <<"203.0.113.5">>}

\* a field value as the HTTP server hands it to the application: the parser has
\* removed the blanks that follow the colon, blanks further on are kept
HeaderValues(n) == {v \in SeqsUpTo(HeaderAtoms, n) : v = << >> \/ Head(v) # BLANK}

TrustRequests ==
    {Request("is_local_request", "c1", [headers |-> Headers(r, f), remote_addr |-> a],
             IoOk, << >>, EmptyDict) :
        r \in HeaderValues(MaxRealIpLen),
        f \in HeaderValues(MaxForwardedLen),
        a \in RemoteAddrs}

InitTrust ==
    /\ users = {}
    /\ roles = {}
    /\ session = [c \in Clients |-> EmptyDict]
    /\ audit = << >>
    /\ pc = "handling"
    /\ req \in TrustRequests
    /\ resp = NoResponse
    /\ issued = [c \in Clients |-> NotIssued]
    /\ inflight = NoThreads

\* is_local_request() on the request at hand
classify_request ==
    /\ Handling("is_local_request")
    /\ resp' = [status |-> 0, is_local |-> is_local_request(req)]
    /\ pc' = "done"
    /\ UNCHANGED <<users, roles, session, audit, req, issued, inflight>>

NextTrust == classify_request

SpecTrust == InitTrust /\ [][NextTrust]_vars

-----------------------------------------------------------------------------
(* The rate limiter's key function on its own, over the same requests. *)

LimiterRequests == {[r EXCEPT !.ep = "rate_limit_key"] : r \in TrustRequests}

InitLimiter ==
    /\ users = {}
    /\ roles = {}
    /\ session = [c \in Clients |-> EmptyDict]
    /\ audit = << >>
    /\ pc = "handling"
    /\ req \in LimiterRequests
    /\ resp = NoResponse
    /\ issued = [c \in Clients |-> NotIssued]
    /\ inflight = NoThreads

\* the limiter asks for the key of the request at hand
compute_rate_limit_key ==
    /\ Handling("rate_limit_key")
    /\ resp' = [status |-> 0, key |-> rate_limit_key(req)]
    /\ pc' = "done"
    /\ UNCHANGED <<users, roles, session, audit, req, issued, inflight>>

NextLimiter == compute_rate_limit_key

SpecLimiter == InitLimiter /\ [][NextLimiter]_vars

-----------------------------------------------------------------------------
(* The identity resolver and the authorization filter on their own: every  *)
(* role list, role table and session within the bounds, resolved once.     *)

RoleNames == {Admins, Ops, Guests}
CategorySets == {{}, {"infra"}, {"secrets"}}

RoleRecords ==
    {[name |-> n, description |-> << >>, categories |-> cs, is_admin |-> a] :
        n \in RoleNames, cs \in CategorySets, a \in BOOLEAN}

RoleTables == {t \in SUBSET RoleRecords : Cardinality(t) <= MaxRoleTable}

RoleLists == SeqsUpTo(RoleNames, MaxRoleListLen)

InitAuthz ==
    /\ \E l \in RoleLists :
          users = {[username |-> alice, password |-> hash_password(P1, "s0"),
                    email |-> << >>, roles |-> l]}
    /\ roles \in RoleTables
    /\ session \in {[c \in Clients |-> s] :
                      s \in {EmptyDict, [username |-> alice], [username |-> bob]}}
    /\ audit = << >>
    /\ pc = "handling"
    /\ req \in {Request("get_current_user", "c1", o, io, << >>, EmptyDict) :
                  o \in Origins, io \in {IoOk, IoNoLoad}}
    /\ resp = NoResponse
    /\ issued = [c \in Clients |-> NotIssued]
    /\ inflight = NoThreads

\* get_current_user() and get_user_categories() of its result
resolve_identity ==
    /\ Handling("get_current_user")
    /\ resp' = [status |-> 0,
                user |-> get_current_user,
                categories |-> get_user_categories(get_current_user)]
    /\ pc' = "done"
    /\ UNCHANGED <<users, roles, session, audit, req, issued, inflight>>

NextAuthz == resolve_identity

SpecAuthz == InitAuthz /\ [][NextAuthz]_vars

-----------------------------------------------------------------------------
(* The read endpoints on their own: every role list, role table and session *)
(* within the bounds, one read of a configuration document.                 *)

ConfigFull ==
    [services |-> <<[name |-> "router", category |-> "infra"],
                    [name |-> "vault", category |-> "secrets"],
                    [name |-> "misc"],
                    [name |-> "grafana", category |-> "infra"]>>,
     categories |-> <<[name |-> "infra"], [name |-> "secrets"], [name |-> "media"]>>,
     settings |-> "dark"]

ConfigNoServices == [categories |-> <<[name |-> "secrets"], [name |-> "infra"]>>]

ConfigNoCategories == [services |-> <<[name |-> "vault", category |-> "secrets"]>>]

IoConfig(load_ok, config) ==
    [load_ok |-> load_ok, save_ok |-> TRUE, ip_whitelist |-> {}, config |-> config]

FilterRequests ==
    {Request(ep, "c1", o, io, << >>, EmptyDict) :
        ep \in {"get_config", "get_services", "get_categories"},
        o \in Origins,
        io \in {IoConfig(TRUE, ConfigFull), IoConfig(TRUE, ConfigNoServices),
                IoConfig(TRUE, ConfigNoCategories), IoConfig(TRUE, EmptyDict),
                IoConfig(TRUE, None), IoConfig(FALSE, ConfigFull)}}

InitFilter ==
    /\ \E l \in RoleLists :
          users = {[username |-> alice, password |-> hash_password(P1, "s0"),
                    email |-> << >>, roles |-> l]}
    /\ roles \in RoleTables
    /\ session \in {[c \in Clients |-> s] : s \in {EmptyDict, [username |-> alice]}}
    /\ audit = << >>
    /\ pc = "handling"
    /\ req \in FilterRequests
    /\ resp = NoResponse
    /\ issued = [c \in Clients |-> NotIssued]
    /\ inflight = NoThreads

NextFilter ==
    \/ get_config
    \/ get_services
    \/ get_categories

SpecFilter == InitFilter /\ [][NextFilter]_vars

-----------------------------------------------------------------------------
(* Session integrity: two browsers of the same user, an administrator at    *)
(* the console, and a session from before tokens were introduced.           *)

Browsers == {"c1", "c2"}

DocTwoRoles ==
    [users |-> {[username |-> alice, password |-> P1,
                 email |-> << >>, roles |-> <<Admins>>]},
     roles |-> {RoleAdmins, RoleOps}]

SessionRequests ==
    {Request("auth_status", c, o, IoOk, << >>, EmptyDict) :
        c \in Browsers, o \in Origins}
    \cup
    {Request("login", c, ViaProxy, IoOk, << >>, [username |-> alice, password |-> p]) :
        c \in Browsers, p \in {P1, P2}}
    \cup
    {Request("logout", c, ViaProxy, IoOk, << >>, EmptyDict) : c \in Browsers}
    \cup
    {Request("change_password", c, ViaProxy, IoOk, << >>,
             [current_password |-> cur, new_password |-> new]) :
        c \in Browsers, cur \in {P1, P2}, new \in {P1, P2}}
    \cup
    {Request("update_user", "c1", LocalDirect, IoOk, alice, j) :
        j \in {[roles |-> <<Ops>>], [roles |-> <<Admins>>], [password |-> P2]}}

InitSessions ==
    /\ users = DocTwoRoles.users
    /\ roles = DocTwoRoles.roles
    /\ session \in {[c \in Browsers |-> EmptyDict],
                    [c \in Browsers |-> IF c = "c2" THEN [username |-> alice]
                                        ELSE EmptyDict]}
    /\ audit = << >>
    /\ pc = "idle"
    /\ req = NoRequest
    /\ resp = NoResponse
    /\ issued = [c \in Browsers |-> NotIssued]
    /\ inflight = NoThreads

ReceiveSessions ==
    /\ pc = "idle"
    /\ \E r \in SessionRequests : req' = r
    /\ pc' = "handling"
    /\ UNCHANGED <<users, roles, session, audit, resp, issued, inflight>>

NextSessions ==
    \/ ReceiveSessions
    \/ auth_status
    \/ login
    \/ logout
    \/ change_password
    \/ update_user
    \/ Finish

SpecSessions == InitSessions /\ [][NextSessions]_vars

-----------------------------------------------------------------------------
(* The session token on its own: two user records within the bounds, with   *)
(* role names and passwords that contain the delimiters, fingerprinted once. *)

TokenRoleNames == {Admins, Ops, <<"Admins", ",", "Ops">>, <<"Ops", ":", "pw">>}
TokenPasswords == {<<"x">>, <<"pw", ":", "x">>}
TokenEmails == {<< >>, <<"a", "@", "b", ".", "c">>}

TokenUsers(username) ==
    {[username |-> username, password |-> p, email |-> e, roles |-> l] :
        p \in TokenPasswords, e \in TokenEmails,
        l \in SeqsUpTo(TokenRoleNames, MaxRoleListLen)}

InitToken ==
    /\ \E a \in TokenUsers(alice), b \in TokenUsers(bob) : users = {a, b}
    /\ roles \in {{}, {RoleOpsAdmin}}
    /\ session = [c \in Clients |-> EmptyDict]
    /\ audit = << >>
    /\ pc = "handling"
    /\ req = Request("get_session_token", "c1", ViaProxy, IoOk, << >>, EmptyDict)
    /\ resp = NoResponse
    /\ issued = [c \in Clients |-> NotIssued]
    /\ inflight = NoThreads

\* get_session_token(username) for both users of the document
compute_session_tokens ==
    /\ Handling("get_session_token")
    /\ resp' = [status |-> 0,
                tokens |-> [u \in {alice, bob} |-> get_session_token(load_users, u)]]
    /\ pc' = "done"
    /\ UNCHANGED <<users, roles, session, audit, req, issued, inflight>>

NextToken == compute_session_tokens

SpecToken == InitToken /\ [][NextToken]_vars

-----------------------------------------------------------------------------
(* The handlers that write users.yaml, served one request at a time, with   *)
(* reads and writes of the files that can fail.                             *)

Mail == <<"a", "@", "b", ".", "c">>

\* two accounts from before hashing: alice holds Ops, bob is an administrator
DocWrites ==
    [users |-> {[username |-> alice, password |-> P1, email |-> << >>, roles |-> <<Ops>>],
                [username |-> bob, password |-> P2, email |-> << >>,
                 roles |-> <<Admins>>]},
     roles |-> {RoleAdmins, RoleOps}]

IoFiles(load_ok, save_ok, config_save_ok) ==
    [load_ok |-> load_ok, save_ok |-> save_ok, ip_whitelist |-> {},
     config_save_ok |-> config_save_ok]

WriteRequests ==
    {Request("login", "c1", ViaProxy, IoOk, << >>, [username |-> u.username,
                                                    password |-> u.password]) :
        u \in DocWrites.users}
    \cup
    {Request("logout", "c1", ViaProxy, IoOk, << >>, EmptyDict)}
    \cup
    {Request("update_profile", "c1", o, io, << >>, j) :
        o \in Origins, io \in {IoOk, IoNoLoad, IoNoSave},
        j \in {[first_name |-> <<BLANK, "Al">>, email |-> Mail],
               [first_name |-> << >>, last_name |-> <<"Li">>, email |-> << >>]}}
    \cup
    {Request("update_config", "c1", o, IoFiles(ld, sv, cf), << >>, j) :
        o \in Origins, ld \in BOOLEAN, sv \in BOOLEAN, cf \in BOOLEAN,
        j \in {[categories |-> {[name |-> "media"]}], [services |-> {}]}}
    \cup
    {Request("change_password", "c1", ViaProxy, io, << >>,
             [current_password |-> P1, new_password |-> P2]) : io \in {IoOk, IoNoSave}}
    \cup
    {Request("update_user", "c1", o, io, alice, [roles |-> <<Admins>>]) :
        o \in Origins, io \in {IoOk, IoNoSave}}

InitWrites ==
    /\ users = DocWrites.users
    /\ roles = DocWrites.roles
    /\ session = [c \in Clients |-> EmptyDict]
    /\ audit = << >>
    /\ pc = "idle"
    /\ req = NoRequest
    /\ resp = NoResponse
    /\ issued = [c \in Clients |-> NotIssued]
    /\ inflight = NoThreads

ReceiveWrites ==
    /\ pc = "idle"
    /\ \E r \in WriteRequests : req' = r
    /\ pc' = "handling"
    /\ UNCHANGED <<users, roles, session, audit, resp, issued, inflight>>

NextWrites ==
    \/ ReceiveWrites
    \/ login
    \/ logout
    \/ change_password
    \/ update_profile
    \/ update_config
    \/ update_user
    \/ Finish

SpecWrites == InitWrites /\ [][NextWrites]_vars

-----------------------------------------------------------------------------
(* The audit log as a file: the lines of all requests served so far, up to  *)
(* MaxAuditLen lines.                                                       *)

AuditRequests ==
    {Request("auth_status", "c1", ViaProxy, IoOk, << >>, EmptyDict)}
    \cup
    {Request("login", "c1", ViaProxy, io, << >>, [username |-> alice, password |-> p]) :
        io \in {IoOk, IoWhitelist}, p \in {P1, P2}}
    \cup
    {Request("logout", "c1", o, IoOk, << >>, EmptyDict) : o \in Origins}
    \cup
    {Request("change_password", "c1", ViaProxy, IoOk, << >>,
             [current_password |-> cur, new_password |-> P2]) : cur \in {P1, P2}}
    \cup
    {Request("update_user", "c1", LocalDirect, io, alice, [roles |-> <<Ops>>]) :
        io \in {IoOk, IoNoSave}}

InitAudit ==
    /\ users = DocLegacy.users
    /\ roles = DocLegacy.roles
    /\ session = [c \in Clients |-> EmptyDict]
    /\ audit = << >>
    /\ pc = "idle"
    /\ req = NoRequest
    /\ resp = NoResponse
    /\ issued = [c \in Clients |-> NotIssued]
    /\ inflight = NoThreads

ReceiveAudit ==
    /\ pc = "idle"
    /\ Len(audit) < MaxAuditLen
    /\ \E r \in AuditRequests : req' = r
    /\ pc' = "handling"
    /\ UNCHANGED <<users, roles, session, audit, resp, issued, inflight>>

\* the response is sent; audit.log keeps its lines
FinishAudit ==
    /\ pc = "done"
    /\ pc' = "idle"
    /\ req' = NoRequest
    /\ resp' = NoResponse
    /\ UNCHANGED <<users, roles, session, audit, issued, inflight>>

NextAudit ==
    \/ ReceiveAudit
    \/ auth_status
    \/ login
    \/ logout
    \/ change_password
    \/ update_user
    \/ FinishAudit

SpecAudit == InitAudit /\ [][NextAudit]_vars

-----------------------------------------------------------------------------
(* Two requests served at the same time by two threads of the server: each  *)
(* handler passes its gate, loads users.yaml, and later writes the document *)
(* it loaded, modified; the threads interleave between these steps.         *)

Threads == {"t1", "t2"}

NoDocument == [users |-> {}, roles |-> {}]

\* a request in a thread: how far its handler has come, the document it has
\* loaded and its response status; whether its principal was an administrator
\* at the gate, and which writes it has seen and overwritten (history)
Thread(request) ==
    [request |-> request, stage |-> "start", users_data |-> NoDocument, status |-> 0,
     principal_admin |-> FALSE, seen |-> {}, overwrote |-> {}]

\* the thread has answered 200: it has written the document
Saved(t) == inflight[t].stage = "done" /\ inflight[t].status = 200

AdminRaceRequests ==
    {Request("update_user", "c1", ViaProxy, IoOk, alice, [roles |-> <<Admins>>]),
     Request("update_user", "c1", ViaProxy, IoOk, bob, [email |-> Mail]),
     Request("update_roles", "c1", ViaProxy, IoOk, << >>,
             [roles |-> {RoleAdmins, RoleOpsAdmin}])}

UserRaceRequests ==
    {Request("update_profile", "c2", ViaProxy, io, << >>, [first_name |-> <<"Al">>]) :
        io \in {IoOk, IoNoSave}}
    \cup
    {Request("change_password", "c2", ViaProxy, IoOk, << >>,
             [current_password |-> P1, new_password |-> P2])}

\* the session a login of this user has written
SessionOf(doc, username) ==
    [_permanent |-> TRUE, username |-> username,
     session_token |-> get_session_token(doc, username)]

\* bob, an administrator, is logged in at c1 and alice at c2; each has sent a
\* request
InitRace ==
    /\ users = DocWrites.users
    /\ roles = DocWrites.roles
    /\ session = [c \in Browsers |-> IF c = "c1" THEN SessionOf(DocWrites, bob)
                                     ELSE SessionOf(DocWrites, alice)]
    /\ audit = << >>
    /\ pc = "racing"
    /\ resp = NoResponse
    /\ issued = [c \in Browsers |-> NotIssued]
    /\ \E a \in AdminRaceRequests, u \in UserRaceRequests :
          inflight = [t \in Threads |-> IF t = "t1" THEN Thread(a) ELSE Thread(u)]
    /\ \E t \in Threads : req = inflight[t].request

\* the thread that runs
Running(t) == pc = "racing" /\ req = inflight[t].request

\* the server passes control to the other thread
switch_thread ==
    /\ pc = "racing"
    /\ \E t \in Threads :
          /\ inflight[t].stage # "done"
          /\ req # inflight[t].request
          /\ req' = inflight[t].request
    /\ UNCHANGED <<users, roles, session, audit, pc, resp, issued, inflight>>

\* the thread answers without writing
race_answer(t, status) ==
    /\ inflight' = [inflight EXCEPT ![t].stage = "done", ![t].status = status]
    /\ UNCHANGED <<users, roles, session, audit, pc, req, resp, issued>>

\* the decorator of the handler and the checks the handler makes before it
\* loads the document
race_enter(t) ==
    /\ Running(t)
    /\ inflight[t].stage = "start"
    /\ LET user == get_current_user
           admitted == [inflight EXCEPT
                           ![t].stage = "gated",
                           ![t].principal_admin = user # None /\ user.is_admin]
       IN IF req.ep \in {"update_user", "update_roles"}
          THEN IF admin_required_passes
               THEN /\ inflight' = admitted
                    /\ UNCHANGED <<users, roles, session, audit, pc, req, resp, issued>>
               ELSE race_answer(t, 403)
          ELSE IF ~login_required_passes THEN race_answer(t, 401)
          ELSE IF req.ep = "update_profile"
          THEN IF user = None \/ user.is_local
               THEN race_answer(t, 403)
               ELSE /\ inflight' = admitted
                    /\ UNCHANGED <<users, roles, session, audit, pc, req, resp, issued>>
          ELSE \* change_password
               IF \/ is_local_request(req)
                  \/ dict_get(req.json, "current_password", << >>) = << >>
                  \/ dict_get(req.json, "new_password", << >>) = << >>
                  \/ ~validate_password_strength(req.json.new_password)
               THEN race_answer(t, 400)
               ELSE /\ inflight' = admitted
                    /\ UNCHANGED <<users, roles, session, audit, pc, req, resp, issued>>

\* users_data = load_users()
race_load(t) ==
    /\ Running(t)
    /\ inflight[t].stage = "gated"
    /\ inflight' = [inflight EXCEPT
                       ![t].stage = "loaded",
                       ![t].users_data = load_users,
                       ![t].seen = {u \in Threads \ {t} : Saved(u)}]
    /\ UNCHANGED <<users, roles, session, audit, pc, req, resp, issued>>

document_of_store(t) == load_users

\* the local variable users_data of the handler
document_of(t) == inflight[t].users_data

\* save_users(users_data) has written the document; the thread answers 200
race_write(t, new_users, new_roles, new_session, log) ==
    /\ users' = new_users
    /\ roles' = new_roles
    /\ session' = [session EXCEPT ![req.client] = new_session]
    /\ audit' = audit \o log
    /\ inflight' = [inflight EXCEPT
                       ![t].stage = "done",
                       ![t].status = 200,
                       ![t].overwrote =
                           {u \in Threads \ {t} : Saved(u)} \ inflight[t].seen]
    /\ UNCHANGED <<pc, req, resp, issued>>

\* the handler modifies the document it loaded and saves it
race_save(t) ==
    /\ Running(t)
    /\ inflight[t].stage = "loaded"
    /\ LET users_data == document_of(t)
           data == req.json
           actor == dict_get(sess, "username", PyNone)
       IN IF req.ep = "update_roles"
          THEN IF save_users
               THEN race_write(t, users_data.users, dict_get(data, "roles", {}), sess,
                        <<audit_entry("roles_updated", actor, EmptyDict)>>)
               ELSE race_answer(t, 500)
          ELSE LET username == IF req.ep = "update_user" THEN req.path ELSE actor
               IN IF find_user(users_data, username) = {}
                  THEN race_answer(t, 404)
                  ELSE LET user == the_user(users_data, username)
                       IN IF req.ep = "update_user"
                          THEN \E salt \in gensalt(dict_get(data, "password", << >>)) :
                               LET changed == updated_user(user, data, salt)
                               IN IF \/ /\ "password" \in DOMAIN data
                                        /\ data.password # << >>
                                        /\ ~validate_password_strength(data.password)
                                     \/ /\ "email" \in DOMAIN data
                                        /\ changed.email # << >>
                                        /\ ~validate_email(changed.email)
                                  THEN race_answer(t, 400)
                                  ELSE IF save_users
                                  THEN race_write(t,
                                           (users_data.users \ {user}) \cup {changed},
                                           users_data.roles, sess,
                                           <<audit_entry("user_updated", actor,
                                                 [updated_user |-> username])>>)
                                  ELSE race_answer(t, 500)
                          ELSE IF req.ep = "update_profile"
                          THEN LET changed ==
                                       profile_fields(user,
                                           strip(dict_get(data, "first_name", << >>)),
                                           strip(dict_get(data, "last_name", << >>)),
                                           strip(dict_get(data, "email", << >>)))
                               IN IF save_users
                                  THEN race_write(t,
                                           (users_data.users \ {user}) \cup {changed},
                                           users_data.roles, sess,
                                           <<audit_entry("profile_update", username,
                                                         EmptyDict)>>)
                                  ELSE race_answer(t, 500)
                          ELSE \* change_password
                               IF ~is_correct_password(user.password, data.current_password)
                               THEN race_answer(t, 401)
                               ELSE \E salt \in gensalt(data.new_password) :
                                    LET changed ==
                                            [user EXCEPT !.password =
                                                 hash_password(data.new_password, salt)]
                                        saved ==
                                            [users |-> (users_data.users \ {user})
                                                          \cup {changed},
                                             roles |-> users_data.roles]
                                    IN IF save_users
                                       THEN race_write(t, saved.users, saved.roles,
                                                dict_set(sess, "session_token",
                                                    get_session_token(saved, username)),
                                                <<audit_entry("password_changed", username,
                                                              EmptyDict)>>)
                                       ELSE race_answer(t, 500)

NextRace ==
    \/ switch_thread
    \/ \E t \in Threads : race_enter(t)
    \/ \E t \in Threads : race_load(t)
    \/ \E t \in Threads : race_save(t)

SpecRace == InitRace /\ [][NextRace]_vars

-----------------------------------------------------------------------------
(* Logins under an IP whitelist: every X-Real-IP value within the bound,    *)
(* with and without X-Forwarded-For, from every raw address.                *)

Whitelists ==
    {{}, {<<"203.0.113.5">>}, {<<"10.0.0.1">>}, {<<"127.0.0.1">>, <<"10.0.0.1">>}}

WhitelistRequests ==
    {Request("login", "c1", [headers |-> Headers(r, f), remote_addr |-> a],
             [load_ok |-> TRUE, save_ok |-> TRUE, ip_whitelist |-> w], << >>,
             [username |-> u, password |-> p]) :
        r \in HeaderValues(MaxRealIpLen),
        f \in {<< >>, <<"127.0.0.1">>, <<"203.0.113.5">>},
        a \in RemoteAddrs,
        w \in Whitelists,
        u \in {alice, << >>},
        p \in {P1, P2}}

InitWhitelist ==
    /\ users = DocLegacy.users
    /\ roles = DocLegacy.roles
    /\ session = [c \in Clients |-> EmptyDict]
    /\ audit = << >>
    /\ pc = "idle"
    /\ req = NoRequest
    /\ resp = NoResponse
    /\ issued = [c \in Clients |-> NotIssued]
    /\ inflight = NoThreads

ReceiveWhitelist ==
    /\ pc = "idle"
    /\ \E r \in WhitelistRequests : req' = r
    /\ pc' = "handling"
    /\ UNCHANGED <<users, roles, session, audit, resp, issued, inflight>>

NextWhitelist ==
    \/ ReceiveWhitelist
    \/ login
    \/ Finish

SpecWhitelist == InitWhitelist /\ [][NextWhitelist]_vars

-----------------------------------------------------------------------------
(* Properties *)

ReadGated == {"change_password", "get_profile"}
WriteGated == {"create_user", "update_user", "delete_user", "get_roles",
               "create_role", "update_roles", "delete_role"}

LoopbackNames == {<<"127.0.0.1">>, <<"::1">>, <<"localhost">>}

HasMarker(response) ==
    "login_required" \in DOMAIN response.body /\ response.body.login_required

\* the one value the classification rests on: the trimmed X-Real-IP if it is not
\* empty, else the trimmed first token of X-Forwarded-For if that header is not
\* empty, else the raw address
ChosenAddress(request) ==
    LET real_ip == request.headers["X-Real-IP"]
        forwarded_for == request.headers["X-Forwarded-For"]
    IN IF strip(real_ip) # << >> THEN strip(real_ip)
       ELSE IF forwarded_for # << >> THEN strip(split_first(forwarded_for, ","))
       ELSE request.remote_addr

\* C1: a request is local iff the value chosen by precedence (trimmed X-Real-IP
\* if non-empty, else trimmed first X-Forwarded-For token if that header is
\* non-empty, else raw address) is exactly one of 127.0.0.1, ::1, localhost.
C1_TrustPrecedence ==
    (pc = "done" /\ req.ep = "is_local_request")
        => (resp.is_local <=> ChosenAddress(req) \in LoopbackNames)

\* X-Forwarded-For "203.0.113.5,127.0.0.1" alone, over a loopback connection,
\* is classified non-local
C1_Witness ==
    /\ pc = "done" /\ req.ep = "is_local_request"
    /\ req.headers["X-Real-IP"] = << >>
    /\ req.headers["X-Forwarded-For"] = <<"203.0.113.5", ",", "127.0.0.1">>
    /\ req.remote_addr = <<"127.0.0.1">>
    /\ ~resp.is_local

\* the stored credential is matched by the submitted password: a plaintext
\* record by equality, a hashed record by verification
CredentialMatches(stored, password) ==
    IF is_password_hashed(stored) THEN verify_password(password, stored)
    ELSE stored = password

\* the login reached its credential check and told the outcome
LoginDecided ==
    /\ pc = "done" /\ req.ep = "login"
    /\ req.io.load_ok
    /\ resp.status \in {200, 401}

\* C2: authenticate_user(username, password) is true iff the store holds a user
\* with that username whose stored credential is matched by the password
\* (plaintext by equality, hashed by verification); login answers 200 exactly
\* when authenticate_user is true.
C2_AuthenticateMatchesCredential ==
    LoginDecided =>
        (resp.status = 200 <=>
            \E user \in users :
                /\ user.username = sanitize_string(req.json.username, 100)
                /\ CredentialMatches(user.password, req.json.password))

\* a non-local login of user u with password P, while the store holds for u the
\* digest that create_user, update_user or change_password write for P
LoginAfterPasswordSet ==
    /\ pc = "done" /\ req.ep = "login"
    /\ ~is_local_request(req)
    /\ req.io = IoOk
    /\ \E user \in users, salt \in Salts :
          /\ user.username = req.json.username
          /\ user.password = hash_password(req.json.password, salt)

\* C3: once create_user, update_user or change_password has saved password P for
\* user u (and nothing changed it since), a non-local login with u and P
\* succeeds and sets the session.
C3_CredentialRoundTrip ==
    LoginAfterPasswordSet =>
        /\ resp.status = 200
        /\ "username" \in DOMAIN sess
        /\ sess.username = req.json.username

\* C4: for a local request get_current_user is the implicit administrator,
\* whatever the session and the store hold, and both gates admit the request.
C4_LocalIsImplicitAdmin ==
    (pc \in {"handling", "done"} /\ req.ep \in ReadGated \cup WriteGated \cup {"login"}
     /\ is_local_request(req))
        => /\ get_current_user = [username |-> <<"localhost">>,
                                  roles |-> << <<"Admins">> >>,
                                  is_local |-> TRUE, is_admin |-> TRUE]
           /\ (pc = "done" /\ req.ep \in ReadGated \cup WriteGated) => resp.handler
           /\ (pc = "done" /\ req.ep = "login" /\ resp.status = 200)
                 => resp.body.user = [username |-> <<"localhost">>,
                                      roles |-> << <<"Admins">> >>,
                                      is_local |-> TRUE, is_admin |-> TRUE]

\* a local request that carries alice's session reaches a write-gated handler
\* while the store cannot be read
C4_Witness ==
    /\ pc = "done" /\ req.ep = "get_roles"
    /\ is_local_request(req)
    /\ "username" \in DOMAIN sess
    /\ ~req.io.load_ok
    /\ resp.handler /\ resp.status = 200

\* C5: handling a local request leaves the client's session exactly as it was.
C5_LocalLeavesSession ==
    [][(pc = "handling" /\ is_local_request(req)) => session' = session]_vars

\* C6: behind login_required a request is answered 401 with login_required=true
\* iff it is non-local and its session holds no username; every other request
\* reaches the handler.
C6_ReadGate ==
    [][(pc = "handling" /\ req.ep \in ReadGated) =>
          LET anonymous == ~is_local_request(req) /\ "username" \notin DOMAIN sess
          IN /\ (resp'.status = 401 /\ HasMarker(resp')) <=> anonymous
             /\ resp'.handler <=> ~anonymous
             /\ anonymous => UNCHANGED <<users, roles, session, audit>>]_vars

\* a non-local request with a session reaches the read-gated handler
C6_Witness ==
    /\ pc = "done" /\ req.ep = "get_profile"
    /\ ~is_local_request(req)
    /\ "username" \in DOMAIN sess
    /\ resp.handler /\ resp.status = 200

\* C7: a non-local request whose session names a user that the store no longer
\* holds is rejected by the read gate (401, login_required=true) and does not
\* reach the handler.
C7_DanglingSessionRejected ==
    [][(/\ pc = "handling" /\ req.ep \in ReadGated
        /\ ~is_local_request(req)
        /\ req.io.load_ok
        /\ "username" \in DOMAIN sess
        /\ \A user \in users : user.username # sess.username)
          => (resp'.status = 401 /\ HasMarker(resp') /\ ~resp'.handler)]_vars

\* the session's user is an administrator in the store as this request reads it
SessionUserIsAdmin ==
    /\ "username" \in DOMAIN sess
    /\ \E user \in load_users.users :
          /\ user.username = sess.username
          /\ \E role \in load_users.roles :
                /\ \E i \in 1..Len(user.roles) : user.roles[i] = role.name
                /\ (role.is_admin \/ role.name = <<"Admins">>)

\* C8: behind admin_required a request reaches the handler iff it is local or
\* its session's user is an administrator in the store as read; every other
\* request gets 403 without the login_required marker and nothing changes.
C8_WriteGate ==
    [][(pc = "handling" /\ req.ep \in WriteGated) =>
          LET admitted == is_local_request(req) \/ SessionUserIsAdmin
          IN /\ resp'.handler <=> admitted
             /\ ~admitted =>
                   /\ resp'.status = 403
                   /\ ~HasMarker(resp')
                   /\ UNCHANGED <<users, roles, session, audit>>]_vars

\* an authenticated non-administrator is turned away from a write-gated handler
C8_Witness ==
    /\ pc = "done" /\ req.ep = "delete_user"
    /\ ~is_local_request(req)
    /\ req.io.load_ok
    /\ "username" \in DOMAIN sess
    /\ \E user \in users : user.username = sess.username
    /\ resp.status = 403 /\ ~resp.handler

\* a non-local request resolved to a stored user
ResolvedStoredUser ==
    /\ pc = "done" /\ req.ep = "get_current_user"
    /\ ~is_local_request(req)
    /\ resp.user # None

\* C9 as stated: is_admin iff some role name the user holds is exactly 'Admins'
\* or names a role whose stored is_admin flag is true.
C9_AdminByHeldName ==
    ResolvedStoredUser =>
        (resp.user.is_admin <=>
            \E i \in 1..Len(resp.user.roles) :
                \/ resp.user.roles[i] = <<"Admins">>
                \/ \E role \in roles :
                      role.name = resp.user.roles[i] /\ role.is_admin)

\* C9, amended: is_admin iff some role of the role table whose name the user
\* holds is named exactly 'Admins' or has its stored is_admin flag true.
C9_AdminByStoredRole ==
    ResolvedStoredUser =>
        (resp.user.is_admin <=>
            \E i \in 1..Len(resp.user.roles) :
                \E role \in roles :
                    /\ role.name = resp.user.roles[i]
                    /\ (role.name = <<"Admins">> \/ role.is_admin))

\* the user holds Admins, stored with is_admin = false, and is an administrator
C9_Witness ==
    /\ ResolvedStoredUser
    /\ \E role \in roles : role.name = <<"Admins">> /\ ~role.is_admin
    /\ \A role \in roles : ~role.is_admin
    /\ resp.user.is_admin

\* C10: get_user_categories(principal) is the union of the categories of the
\* roles of the role table that the principal holds; role names missing from
\* the table add nothing and an absent principal has no category.
C10_CategoriesAreUnion ==
    (pc = "done" /\ req.ep = "get_current_user" /\ req.io.load_ok) =>
        resp.categories =
            IF resp.user = None THEN {}
            ELSE {c \in {"infra", "secrets"} :
                    \E i \in 1..Len(resp.user.roles) :
                        \E role \in roles :
                            role.name = resp.user.roles[i] /\ c \in role.categories}

\* two held roles of the table contribute one category each
C10_Witness ==
    /\ pc = "done" /\ req.ep = "get_current_user" /\ req.io.load_ok
    /\ resp.user # None /\ ~resp.user.is_local
    /\ Len(resp.user.roles) = 2
    /\ resp.user.roles[1] # resp.user.roles[2]
    /\ Cardinality(roles) = 2
    /\ \A role \in roles : in_list(role.name, resp.user.roles)
    /\ \E role \in roles : role.categories = {"infra"}
    /\ resp.categories = {"infra", "secrets"}

\* the role names of the principal a request stands for: the implicit
\* administrator for a local request, else the stored user the session names
PrincipalRoles ==
    IF is_local_request(req) THEN {<<"Admins">>}
    ELSE IF "username" \in DOMAIN sess
    THEN UNION {{user.roles[i] : i \in 1..Len(user.roles)} :
                  user \in {u \in users : u.username = sess.username}}
    ELSE {}

\* the categories that principal may see
Accessible ==
    UNION {role.categories : role \in {r \in roles : r.name \in PrincipalRoles}}

\* the principal is an administrator
PrincipalIsAdmin ==
    \E role \in roles :
        role.name \in PrincipalRoles /\ (role.is_admin \/ role.name = <<"Admins">>)

\* the items a read endpoint returned, and the stored items it chose from
Returned(key) ==
    IF req.ep = "get_config" THEN resp.body[key] ELSE resp.body

Elements(list) == {list[i] : i \in 1..Len(list)}

\* a read endpoint answered with the items stored under key
ReadAnswered(ep, key) ==
    /\ pc = "done" /\ req.ep \in {"get_config", ep}
    /\ req.io.load_ok
    /\ resp.status = 200 /\ resp.handler
    /\ req.io.config # None /\ key \in DOMAIN req.io.config

\* C11: GET config, GET services and GET categories return exactly the stored
\* services whose category, and the stored categories whose name, is in the
\* principal's accessible set; being an administrator adds nothing.
C11_ReadsFilteredByCategory ==
    /\ ReadAnswered("get_services", "services") =>
          Elements(Returned("services")) =
              {item \in Elements(req.io.config.services) :
                  "category" \in DOMAIN item /\ item.category \in Accessible}
    /\ ReadAnswered("get_categories", "categories") =>
          Elements(Returned("categories")) =
              {item \in Elements(req.io.config.categories) : item.name \in Accessible}

\* an administrator whose roles lack 'secrets' reads the services and gets the
\* ones tagged 'infra' but not the one tagged 'secrets'
C11_Witness ==
    /\ ReadAnswered("get_services", "services")
    /\ ~is_local_request(req)
    /\ PrincipalIsAdmin
    /\ Accessible = {"infra"}
    /\ req.io.config = ConfigFull
    /\ Len(Returned("services")) = 2
    /\ \A i \in 1..2 : Returned("services")[i].category = "infra"

\* a status check is about to be served for a non-local session that names a
\* stored user
StatusCheckOfStoredUser ==
    /\ pc = "handling" /\ req.ep = "auth_status"
    /\ ~is_local_request(req)
    /\ req.io.load_ok
    /\ "username" \in DOMAIN sess
    /\ \E user \in users : user.username = sess.username

SessionUser == CHOOSE user \in users : user.username = sess.username

\* the outcome of a status check that found the session invalid
Invalidated ==
    /\ session' = [session EXCEPT ![req.client] = << >>]
    /\ Len(audit') = Len(audit) + 1
    /\ audit'[Len(audit')].action = "session_invalidated"
    /\ audit'[Len(audit')].details = [reason |-> "role_or_password_changed"]
    /\ ~resp'.body.authenticated

\* the outcome of a status check that found the session valid
Validated ==
    /\ session' = session
    /\ audit' = audit
    /\ resp'.body.authenticated

\* C12: on a status check of a non-local session whose user is stored, the
\* session is invalid iff it carries a token that differs from the token of the
\* user's current record; then it is cleared, one 'session_invalidated' entry
\* with reason 'role_or_password_changed' is appended and the answer is
\* unauthenticated.  A session without token is valid.
C12_TokenMismatchInvalidates ==
    [][StatusCheckOfStoredUser =>
          LET fresh == get_session_token([users |-> users, roles |-> roles],
                                         sess.username)
              mismatch == "session_token" \in DOMAIN sess
                          /\ sess.session_token # fresh
          IN IF mismatch THEN Invalidated ELSE Validated]_vars

\* a session without token passed its status check although the record of its
\* user has changed since the service started
C12_Witness ==
    /\ pc = "done" /\ req.ep = "auth_status"
    /\ ~is_local_request(req)
    /\ "username" \in DOMAIN sess /\ "session_token" \notin DOMAIN sess
    /\ resp.body.authenticated
    /\ \E user \in users : user.username = sess.username /\ user.roles = <<Ops>>

\* the session was opened by a login, and the role set of its user is no
\* longer the one of that login
RolesChangedSinceLogin ==
    /\ "session_token" \in DOMAIN sess
    /\ issued[req.client].opened
    /\ Elements(issued[req.client].login_roles) # Elements(SessionUser.roles)

C14_PasswordChangeKeepsActor ==
    [][(StatusCheckOfStoredUser /\ "session_token" \in DOMAIN sess) =>
          /\ (/\ issued[req.client].by = "change_password"
              /\ issued[req.client].refresh = SessionUser) => Validated
          /\ (/\ issued[req.client].by # "none"
              /\ issued[req.client].refresh.password # SessionUser.password)
                => Invalidated]_vars

\* the actor of a password change passed its status check while the other
\* browser still holds the token of the old password
C14_Witness ==
    /\ pc = "done" /\ req.ep = "auth_status" /\ req.client = "c1"
    /\ ~is_local_request(req)
    /\ resp.body.authenticated
    /\ issued["c1"].by = "change_password"
    /\ "session_token" \in DOMAIN session["c2"]
    /\ issued["c2"].by = "login"
    /\ issued["c2"].refresh.password # issued["c1"].refresh.password

\* both tokens of the document have been computed
TokensComputed == pc = "done" /\ req.ep = "get_session_token"

StoredUser(username) == CHOOSE user \in users : user.username = username

Occurrences(x, list) == Cardinality({i \in 1..Len(list) : list[i] = x})

IsPermutation(l1, l2) ==
    /\ Len(l1) = Len(l2)
    /\ \A x \in Elements(l1) \cup Elements(l2) : Occurrences(x, l1) = Occurrences(x, l2)

\* C15: the token depends on the role list up to order and on the stored
\* password only: two records with the same password and role lists that are
\* permutations of each other have the same token, whatever their username and
\* email, and the role table does not enter.
C15_TokenOfRolesAndPassword ==
    TokensComputed =>
        LET a == StoredUser(alice)
            b == StoredUser(bob)
        IN /\ (a.password = b.password /\ IsPermutation(a.roles, b.roles))
                 => resp.tokens[alice] = resp.tokens[bob]
           /\ resp.tokens[alice] =
                 get_session_token([users |-> users, roles |-> {}], alice)

\* two records that differ in username and email and hold the same two roles
\* in opposite order have the same token
C15_Witness ==
    /\ TokensComputed
    /\ StoredUser(alice).roles = <<Ops, Admins>>
    /\ StoredUser(bob).roles = <<Admins, Ops>>
    /\ StoredUser(alice).email # StoredUser(bob).email
    /\ StoredUser(alice).password = StoredUser(bob).password
    /\ roles # {}
    /\ resp.tokens[alice] = resp.tokens[bob]
    /\ resp.tokens[alice] # PyNone

\* C16: two records whose (set of role names, stored password) differ have
\* different tokens, role names and passwords with ',' or ':' included.
C16_TokenSeparatesInputs ==
    TokensComputed =>
        LET a == StoredUser(alice)
            b == StoredUser(bob)
        IN (Elements(a.roles) # Elements(b.roles) \/ a.password # b.password)
              => resp.tokens[alice] # resp.tokens[bob]

\* the password proves the stored credential: it is the plaintext a digest was
\* computed from, or it equals a credential stored as plaintext
Proves(stored, password) ==
    IF Len(stored) >= 2 /\ stored[1] = "$2b$"
    THEN SubSeq(stored, 3, Len(stored)) = password
    ELSE stored = password

\* a non-local login is about to have its credentials checked
LoginChecksCredentials ==
    /\ pc = "handling" /\ req.ep = "login"
    /\ ~is_local_request(req)
    /\ req.io.load_ok /\ req.io.ip_whitelist = {}
    /\ req.json.username # << >> /\ req.json.password # << >>

\* the generic refusal of a login
LoginRefused ==
    /\ resp'.status = 401
    /\ resp'.body = [error |-> "Invalid username or password"]
    /\ Len(audit') = Len(audit) + 1
    /\ audit'[Len(audit')].action = "login_failed"
    /\ UNCHANGED <<users, roles, session>>

\* C17: a non-local login with a stored username and a password that does not
\* prove its credential, and one with a username that is not stored, get the
\* same answer (401, the generic message), append the same audit action and
\* leave session and store as they are.
C17_FailedLoginsAlike ==
    [][LoginChecksCredentials =>
          /\ (\A user \in users : user.username # req.json.username) => LoginRefused
          /\ (\E user \in users : /\ user.username = req.json.username
                                   /\ ~Proves(user.password, req.json.password))
                => LoginRefused]_vars

\* the acting session names a stored user, the current password proves the
\* stored credential and the new password passes the strength check
MayChangePassword ==
    /\ ~is_local_request(req)
    /\ "username" \in DOMAIN sess
    /\ \E user \in users :
          /\ user.username = sess.username
          /\ Proves(user.password, req.json.current_password)
    /\ Len(req.json.new_password) >= MinPasswordLen

\* C18: change_password writes the store only for a non-local session that
\* names a stored user, with a current password that proves the credential and
\* a new password that passes the strength check; otherwise store and session
\* stay and an error is answered.  A successful change replaces the password
\* of the acting user and nothing else.
C18_ChangePasswordGuarded ==
    [][(pc = "handling" /\ req.ep = "change_password") =>
          /\ (users' # users \/ roles' # roles) => MayChangePassword
          /\ ~MayChangePassword =>
                /\ UNCHANGED <<users, roles, session>>
                /\ resp'.status >= 400
          /\ resp'.status = 200 =>
                /\ roles' = roles
                /\ \E user \in users :
                      /\ user.username = sess.username
                      /\ \E changed \in users' :
                            /\ users' = (users \ {user}) \cup {changed}
                            /\ changed.password # user.password
                            /\ changed = [user EXCEPT !.password = changed.password]]_vars

\* a change with a wrong current password against a hashed credential was
\* refused and logged
C18_Witness ==
    /\ pc = "done" /\ req.ep = "change_password"
    /\ resp.status = 401 /\ resp.handler
    /\ \E user \in users :
          /\ user.username = sess.username
          /\ user.password[1] = "$2b$"
          /\ ~Proves(user.password, req.json.current_password)
    /\ Len(audit) = 1 /\ audit[1].action = "password_change_failed"

\* some user holds the role name
Referenced(name) == \E user \in users : name \in Elements(user.roles)

\* C19: delete_role(name), once past the write gate, is refused with the store
\* unchanged whenever some user holds name, and otherwise removes the role,
\* answers success and appends 'role_deleted'.
C19_DeleteRoleUnlessReferenced ==
    [][(/\ pc = "handling" /\ req.ep = "delete_role"
        /\ req.io.load_ok
        /\ (is_local_request(req) \/ SessionUserIsAdmin)) =>
          /\ Referenced(req.path) =>
                /\ UNCHANGED <<users, roles, session, audit>>
                /\ resp'.status = 400
          /\ (~Referenced(req.path) /\ req.io.save_ok) =>
                /\ users' = users
                /\ roles' = {role \in roles : role.name # req.path}
                /\ resp'.status = 200
                /\ Len(audit') = Len(audit) + 1
                /\ audit'[Len(audit')].action = "role_deleted"]_vars

\* the deletion of a stored role that a user holds was refused
C19_Witness ==
    /\ pc = "done" /\ req.ep = "delete_role"
    /\ req.io.load_ok
    /\ resp.status = 400 /\ resp.handler
    /\ Referenced(req.path)
    /\ \E role \in roles : role.name = req.path

\* the users of a store that are administrators
AdminUsers(us, rs) ==
    {user \in us :
        \E role \in rs : /\ role.name \in Elements(user.roles)
                          /\ (role.is_admin \/ role.name = <<"Admins">>)}

\* C20: no delete_user request takes a store that has an administrator to a
\* store that has none.
C20_LastAdminStays ==
    [][(pc = "handling" /\ req.ep = "delete_user" /\ AdminUsers(users, roles) # {})
          => AdminUsers(users', roles') # {}]_vars

\* C21: the rate-limit key of a local request is None (no accounting), and
\* that of a non-local request is the client address resolved by the trust
\* precedence; so requests with different resolved addresses have different
\* keys.
C21_KeyIsResolvedAddress ==
    (pc = "done" /\ req.ep = "rate_limit_key") =>
        resp.key = IF ChosenAddress(req) \in LoopbackNames THEN <<"None">>
                   ELSE ChosenAddress(req)

-----------------------------------------------------------------------------
(* Profile updates *)

\* the record without the fields a profile update may set
WithoutProfile(u) ==
    [k \in DOMAIN u \ {"first_name", "last_name", "email"} |-> u[k]]

-----------------------------------------------------------------------------
(* Failures of the store *)

\* the request at hand reads users.yaml: a login, or a status check or gated
\* request of a session that names a user
ReadsStore ==
    \/ req.ep = "login"
    \/ /\ req.ep \in {"auth_status", "get_profile"} \cup WriteGated
       /\ "username" \in DOMAIN sess

\* C23: when users.yaml cannot be read, a non-local request that reads it
\* (identity resolution, login, a gated handler) is answered with a server
\* error, not as if the document had no users and no roles.
C23_ReadFailureIsServerError ==
    (pc = "done" /\ ~is_local_request(req) /\ ReadsStore /\ ~req.io.load_ok)
        => resp.status >= 500

\* the handlers that write users.yaml
StoreWriters ==
    {"create_user", "update_user", "delete_user", "create_role", "update_roles",
     "delete_role", "change_password", "update_profile", "update_config"}

\* the request at hand asks for a write of users.yaml (update_config writes it
\* when the new configuration names categories)
AsksStoreWrite ==
    /\ req.ep \in StoreWriters
    /\ req.ep = "update_config" => "categories" \in DOMAIN req.json

\* C24: a handler that writes users.yaml does not report success when the write
\* fails: it answers with a server error (or has turned the request away
\* before the write).
C24_FailedWriteIsServerError ==
    (pc = "done" /\ AsksStoreWrite /\ ~req.io.save_ok) => resp.status # 200

-----------------------------------------------------------------------------
(* Auth status *)

\* the session at hand carries a token that is not the token of the record of
\* its user
TokenMismatch ==
    /\ "username" \in DOMAIN sess
    /\ "session_token" \in DOMAIN sess
    /\ sess.session_token #
          get_session_token([users |-> users, roles |-> roles], sess.username)

\* C25: a status check never writes the store; it changes the session or the
\* audit log only when the session carries a mismatching token, and then by
\* one audit entry; when it changes neither, the same check made again in the
\* state it leaves gets the response it has just given.
C25_StatusCheckFrame ==
    [][Handling("auth_status") =>
          /\ users' = users
          /\ roles' = roles
          /\ (session' # session \/ audit' # audit) =>
                 /\ ~is_local_request(req)
                 /\ TokenMismatch
                 /\ Len(audit') = Len(audit) + 1
          /\ (session' = session /\ audit' = audit) =>
                 auth_status_response' = resp']_vars

\* a session whose token is current has been checked: it is authenticated and
\* keeps its token
C25_Witness ==
    /\ pc = "done" /\ req.ep = "auth_status"
    /\ ~is_local_request(req)
    /\ "session_token" \in DOMAIN sess
    /\ ~TokenMismatch
    /\ resp.body.authenticated
    /\ audit = << >>

-----------------------------------------------------------------------------
(* Session lifecycle *)

\* the step puts a username into the session of client c
NamesSession(c) ==
    /\ "username" \in DOMAIN session'[c]
    /\ \/ "username" \notin DOMAIN session[c]
       \/ session'[c].username # session[c].username

\* the step is a logout of client c or a status check that invalidates its
\* session
EndsSession(c) ==
    /\ pc = "handling" /\ req.client = c
    /\ \/ req.ep = "logout"
       \/ req.ep = "auth_status" /\ "session_invalidated" \in DOMAIN resp'.body

\* C26: a username enters a client's session only by a login of that client
\* that is answered 200 and whose username and password are those of a stored
\* record; a logout and an invalidating status check leave the session empty;
\* and while a session holds no username, the client's non-local requests are
\* anonymous: 401 behind the read gate, unauthenticated at auth status.
C26_SessionLifecycle ==
    [][\A c \in DOMAIN session :
          /\ NamesSession(c) =>
                /\ pc = "handling" /\ req.ep = "login" /\ req.client = c
                /\ resp'.status = 200
                /\ req.io.load_ok
                /\ \E user \in users : /\ user.username = session'[c].username
                                        /\ user.password = req.json.password
          /\ EndsSession(c) => session'[c] = << >>
          /\ (/\ pc = "handling" /\ req.client = c
              /\ ~is_local_request(req)
              /\ "username" \notin DOMAIN session[c]) =>
                /\ req.ep \in ReadGated => resp'.status = 401 /\ HasMarker(resp')
                /\ req.ep = "auth_status" => ~resp'.body.authenticated]_vars

\* alice, who had logged in, has logged out: her session is empty
C26_Witness ==
    /\ pc = "done" /\ req.ep = "logout"
    /\ ~is_local_request(req)
    /\ Len(audit) = 1 /\ audit[1].action = "logout" /\ audit[1].username = alice
    /\ sess = << >>

-----------------------------------------------------------------------------
(* Audit log *)

IsPrefix(s, t) == Len(s) <= Len(t) /\ SubSeq(t, 1, Len(s)) = s

\* C27: the audit log is append-only: in every step the log before the step is
\* a prefix of the log after it, and a step adds at most one entry.
C27_AuditAppendOnly ==
    [][IsPrefix(audit, audit') /\ Len(audit') <= Len(audit) + 1]_vars

\* the log holds the entries of a login and of the logout that followed it, in
\* that order
C27_Witness ==
    /\ Len(audit) >= 2
    /\ \E i \in 1..(Len(audit) - 1) :
          /\ audit[i].action = "login_success"
          /\ audit[i + 1].action = "logout"

-----------------------------------------------------------------------------
(* Privileges of a session whose user was demoted *)

\* the session at hand was opened by the login of an administrator, and the
\* stored record of its user holds no administrative role now
DemotedAdmin ==
    /\ "username" \in DOMAIN sess
    /\ issued[req.client].opened
    /\ issued[req.client].login_admin
    /\ \E user \in users : user.username = sess.username
    /\ \A user \in users : \A role \in roles :
          (user.username = sess.username /\ in_list(role.name, user.roles))
              => (~role.is_admin /\ role.name # Admins)

\* C28: a write-gated non-local request of a session whose user was an
\* administrator at login and is none in the store now is answered 403 without
\* reaching the handler and writes nothing, whether or not a status check has
\* invalidated the session in between.
C28_DemotedAdminRejected ==
    [][(/\ pc = "handling" /\ req.ep \in WriteGated
        /\ ~is_local_request(req)
        /\ DemotedAdmin) =>
          /\ resp'.status = 403
          /\ ~resp'.handler
          /\ UNCHANGED <<users, roles>>]_vars

\* alice logged in as an administrator and has been given the role Ops in its
\* place; her session still holds its token, and her update of a user is
\* turned away
C28_Witness ==
    /\ pc = "done" /\ req.ep = "update_user"
    /\ ~is_local_request(req)
    /\ req.io.load_ok
    /\ DemotedAdmin
    /\ "session_token" \in DOMAIN sess
    /\ resp.status = 403

-----------------------------------------------------------------------------
(* Concurrent writers *)

\* the stored document shows what the request of thread t asked for
ChangeStored(t) ==
    LET request == inflight[t].request
        data == request.json
    IN IF request.ep = "update_roles" THEN roles = data.roles
       ELSE IF request.ep = "update_user"
       THEN \E user \in users :
               /\ user.username = request.path
               /\ \A k \in DOMAIN data : user[k] = data[k]
       ELSE IF request.ep = "update_profile"
       THEN \E user \in users :
               /\ user.username = session[request.client].username
               /\ "first_name" \in DOMAIN user
               /\ user.first_name = data.first_name
       ELSE \E user \in users :
               /\ user.username = session[request.client].username
               /\ verify_password(data.new_password, user.password)

\* another thread has written, after the write of t, a document it had loaded
\* before the write of t
Overwritten(t) == \E u \in Threads : Saved(u) /\ t \in inflight[u].overwrote

\* C29: the document is written whole from the copy a handler loaded, without
\* a lock: the change of a handler that answered 200 is missing from the store
\* exactly when another handler that had loaded the document before that write
\* has written after it.
C29_LostUpdateIffOverwritten ==
    \A t \in Threads : Saved(t) => (ChangeStored(t) <=> ~Overwritten(t))

\* both handlers have answered 200 and the document lacks the change of the
\* one that wrote first
C29_Witness ==
    /\ \A t \in Threads : Saved(t)
    /\ \E t \in Threads : ~ChangeStored(t)

\* the role lists of the users and the role table are after the step what
\* they were before it
RolesKept ==
    /\ roles' = roles
    /\ {<<u.username, u.roles>> : u \in users'} = {<<u.username, u.roles>> : u \in users}

\* C30: under every interleaving, no step of a change_password or
\* update_profile request of a principal that is not an administrator changes
\* the roles of a user or a role record: they stay what the last
\* administrator's write made them.
C30_NonAdminKeepsRoles ==
    [][\A t \in Threads :
          (/\ Running(t)
           /\ req.ep \in {"change_password", "update_profile"}
           /\ ~is_local_request(req)
           /\ inflight[t].stage # "start"
           /\ ~inflight[t].principal_admin) => RolesKept]_vars

-----------------------------------------------------------------------------
(* Gates and the session token *)

\* C31: the gates do not look at the session token: a non-local request of a
\* session whose token is not the token of its user's record passes the read
\* gate, passes the write gate iff the user is an administrator in the store
\* as read, gets from get_profile the roles the record holds now, and leaves
\* the username in the session; only a status check clears it.
C31_GatesIgnoreToken ==
    [][(/\ pc = "handling"
        /\ ~is_local_request(req)
        /\ TokenMismatch) =>
          /\ req.ep \in ReadGated => resp'.handler
          /\ req.ep \in WriteGated => (resp'.handler <=> SessionUserIsAdmin)
          /\ (req.ep = "get_profile" /\ resp'.status = 200) =>
                \E user \in users : /\ user.username = sess.username
                                      /\ resp'.body.roles = user.roles
          /\ req.ep \in ReadGated \cup WriteGated =>
                /\ "username" \in DOMAIN session'[req.client]
                /\ session'[req.client].username = sess.username]_vars

\* the password of alice was set anew after her login; her session, with the
\* token of the login, has read her profile
C31_Witness ==
    /\ pc = "done" /\ req.ep = "get_profile"
    /\ ~is_local_request(req)
    /\ TokenMismatch
    /\ issued[req.client].by = "login"
    /\ \E user \in users : /\ user.username = sess.username
                            /\ user.password # issued[req.client].refresh.password
                            /\ resp.status = 200
                            /\ resp.body.roles = user.roles

-----------------------------------------------------------------------------
(* IP whitelist *)

\* the address the whitelist is asked about: X-Real-IP if set, else the raw
\* connection address
ClientAddress(request) ==
    IF request.headers["X-Real-IP"] # << >> THEN request.headers["X-Real-IP"]
    ELSE request.remote_addr

\* the request at hand is not local, a whitelist is configured and does not
\* hold its client address
OffWhitelist ==
    /\ ChosenAddress(req) \notin LoopbackNames
    /\ req.io.ip_whitelist # {}
    /\ ClientAddress(req) \notin req.io.ip_whitelist

\* the credentials of the request at hand are those of a stored record
CredentialsStored ==
    /\ req.json.username # << >>
    /\ \E user \in users : /\ user.username = req.json.username
                            /\ user.password = req.json.password

\* C32: a login that is off the whitelist is answered 403 whatever its
\* credentials: the session and the store stay and exactly one
\* 'login_blocked_ip' entry is appended.  Every other login (local, or no
\* whitelist, or on it) is decided by its credentials: 200 iff they are
\* stored, never 403 and never a 'login_blocked_ip' entry.
C32_WhitelistBeforeCredentials ==
    [][(pc = "handling" /\ req.ep = "login") =>
          IF OffWhitelist
          THEN /\ resp'.status = 403
               /\ session' = session
               /\ users' = users /\ roles' = roles
               /\ Len(audit') = Len(audit) + 1
               /\ IsPrefix(audit, audit')
               /\ audit'[Len(audit')].action = "login_blocked_ip"
          ELSE /\ resp'.status = (IF CredentialsStored THEN 200
                                  ELSE IF req.json.username = << >> THEN 400 ELSE 401)
               /\ \A i \in 1..Len(audit') : audit'[i].action # "login_blocked_ip"]_vars

\* a login with alice's own credentials from an address off the whitelist has
\* been turned away; her session is empty
C32_Witness ==
    /\ pc = "done" /\ req.ep = "login"
    /\ OffWhitelist
    /\ CredentialsStored
    /\ resp.status = 403
    /\ sess = << >>

================================================================================
